---- MODULE Spec2Model ----
(***************************************************************************)
(* A model of the line-search service of treezy254/parser:                 *)
(*   - SearchService (src/src/services.py): the search algorithms and      *)
(*     their dispatcher, as pure operators over strings;                   *)
(*   - client_handler (src/src/main.py): one connection, step by step;     *)
(*   - AppService.create_log (src/src/app.py) over the shared              *)
(*     StorageRepository and LogRepository (src/src/repositories.py),      *)
(*     one thread per call.                                                *)
(* Strings are sequences of code points.  Python booleans and exceptions   *)
(* that a function can produce are the strings "True", "False",            *)
(* "ValueError", "TypeError", so that one variable can hold either.        *)
(***************************************************************************)
EXTENDS Integers, Sequences, FiniteSets, TLC

\* ------------------------------------------------------------------ bounds
MaxTextLen == 3
MaxQueryLen == 2

\* ------------------------------------------------------------- characters
NL == 10
SP == 32
HASH == 35
ChA == 97
ChB == 98

Whitespace == {NL, SP}
Alphabet == {NL, SP, ChA, ChB}

RECURSIVE StringsUpTo(_)
StringsUpTo(n) ==
    IF n = 0 THEN {<<>>}
    ELSE LET shorter == StringsUpTo(n - 1)
         IN shorter \cup {Append(s, c) : s \in {x \in shorter : Len(x) = n - 1}, c \in Alphabet}

Texts == StringsUpTo(MaxTextLen)
Queries == StringsUpTo(MaxQueryLen)

Range(s) == {s[i] : i \in 1..Len(s)}

PyBool(b) == IF b THEN "True" ELSE "False"

\* ---------------------------------------------------- str primitives used
\* str.split() with no argument: the maximal runs of non-whitespace.
RECURSIVE SplitFrom(_, _, _)
SplitFrom(text, i, cur) ==
    IF i > Len(text)
    THEN IF cur = <<>> THEN <<>> ELSE <<cur>>
    ELSE IF text[i] \in Whitespace
         THEN IF cur = <<>> THEN SplitFrom(text, i + 1, <<>>)
              ELSE <<cur>> \o SplitFrom(text, i + 1, <<>>)
         ELSE SplitFrom(text, i + 1, Append(cur, text[i]))

Split(text) == SplitFrom(text, 1, <<>>)

\* a < b on str: lexicographic by code point.
RECURSIVE StrLess(_, _)
StrLess(a, b) ==
    IF b = <<>> THEN FALSE
    ELSE IF a = <<>> THEN TRUE
    ELSE IF Head(a) # Head(b) THEN Head(a) < Head(b)
    ELSE StrLess(Tail(a), Tail(b))

RECURSIVE InsertSorted(_, _)
InsertSorted(w, ws) ==
    IF ws = <<>> THEN <<w>>
    ELSE IF StrLess(w, Head(ws)) THEN <<w>> \o ws
    ELSE <<Head(ws)>> \o InsertSorted(w, Tail(ws))

\* sorted(list of str)
RECURSIVE Sorted(_)
Sorted(ws) == IF ws = <<>> THEN <<>> ELSE InsertSorted(Head(ws), Sorted(Tail(ws)))

\* query in text, on str: contiguous substring.
SubstringIn(query, text) ==
    \E i \in 0..(Len(text) - Len(query)) :
        \A j \in 1..Len(query) : text[i + j] = query[j]

\* ------------------------------------------------------- SearchService
linear_search(text, query) == PyBool(SubstringIn(query, text))

hash_set_search(text, query) == PyBool(query \in Range(Split(text)))

RECURSIVE BinaryLoop(_, _, _, _)
BinaryLoop(sorted_words, query, left, right) ==
    IF left > right THEN "False"
    ELSE LET mid == left + (right - left) \div 2
         IN IF sorted_words[mid + 1] = query THEN "True"
            ELSE IF StrLess(sorted_words[mid + 1], query)
                 THEN BinaryLoop(sorted_words, query, mid + 1, right)
                 ELSE BinaryLoop(sorted_words, query, left, mid - 1)

binary_search(text, query) ==
    LET sorted_words == Sorted(Split(text))
    IN BinaryLoop(sorted_words, query, 0, Len(sorted_words) - 1)

\* A trie node is a dict: [t |-> "dict", m |-> key -> node]; the value True stored
\* under the key '#' is [t |-> "true"]; a raised TypeError is [t |-> "error"].
EmptyDict == [t |-> "dict", m |-> [k \in {} |-> 0]]
PyTrue == [t |-> "true", m |-> [k \in {} |-> 0]]
TrieError == [t |-> "error", m |-> [k \in {} |-> 0]]

DictSet(node, key, val) ==
    [t |-> "dict",
     m |-> [k \in (DOMAIN node.m) \cup {key} |-> IF k = key THEN val ELSE node.m[k]]]

\* The inner loop of build_trie for one word, from the node `current`.
RECURSIVE TrieInsert(_, _)
TrieInsert(current, word) ==
    IF current.t # "dict" THEN TrieError
    ELSE IF word = <<>> THEN DictSet(current, HASH, PyTrue)
    ELSE LET char == Head(word)
             child == IF char \in DOMAIN current.m THEN current.m[char] ELSE EmptyDict
             sub == TrieInsert(child, Tail(word))
         IN IF sub.t = "error" THEN TrieError ELSE DictSet(current, char, sub)

RECURSIVE build_trie_from(_, _)
build_trie_from(root, words) ==
    IF words = <<>> \/ root.t = "error" THEN root
    ELSE build_trie_from(TrieInsert(root, Head(words)), Tail(words))

build_trie(words) == build_trie_from(EmptyDict, words)

RECURSIVE search_trie(_, _)
search_trie(current, query) ==
    IF current.t # "dict" THEN "TypeError"
    ELSE IF query = <<>> THEN PyBool(HASH \in DOMAIN current.m)
    ELSE IF Head(query) \notin DOMAIN current.m THEN "False"
    ELSE search_trie(current.m[Head(query)], Tail(query))

trie_search(text, query) ==
    LET trie == build_trie(Split(text))
    IN IF trie.t = "error" THEN "TypeError" ELSE search_trie(trie, query)

\* services.py:76-77: for i in range(stop): bad_char[pattern[i]] = m - 1 - i
RECURSIVE BadCharFrom(_, _, _, _)
BadCharFrom(pattern, i, stop, bad_char) ==
    IF i >= stop THEN bad_char
    ELSE BadCharFrom(pattern, i + 1, stop,
                     [bad_char EXCEPT ![pattern[i + 1]] = Len(pattern) - 1 - i])

\* A table whose loop runs over the whole pattern, its last character included.
build_bad_char_table_whole(pattern) ==
    BadCharFrom(pattern, 0, Len(pattern), [c \in Range(pattern) |-> Len(pattern)])

\* services.py:69-79: m for every character of the pattern, then, for each of the
\* first m - 1 positions, the distance from it to the last position.
build_bad_char_table(pattern) ==
    BadCharFrom(pattern, 0, Len(pattern) - 1, [c \in Range(pattern) |-> Len(pattern)])

\* services.py:96-102: j when the right-to-left comparison stops; the window ends at
\* text[k] (indices from 0, as in the code).
RECURSIVE CompareBack(_, _, _, _)
CompareBack(text, pattern, j, k) ==
    IF j >= 0 /\ text[k + 1] = pattern[j + 1]
    THEN CompareBack(text, pattern, j - 1, k - 1)
    ELSE j

\* services.py:108: char_shift = bad_char.get(text[i], m)
CharShift(bad_char, char, m) == IF char \in DOMAIN bad_char THEN bad_char[char] ELSE m

\* services.py:95-111: the outer loop from the window that ends at text[i].
RECURSIVE BoyerMooreLoop(_, _, _, _)
BoyerMooreLoop(text, pattern, bad_char, i) ==
    IF i >= Len(text) THEN "False"
    ELSE IF CompareBack(text, pattern, Len(pattern) - 1, i) = -1 THEN "True"
    ELSE BoyerMooreLoop(text, pattern, bad_char,
                        i + CharShift(bad_char, text[i + 1], Len(pattern)))

\* services.py:81-111
boyer_moore_search(text, pattern) ==
    IF Len(pattern) = 0 THEN "True"
    ELSE IF Len(text) < Len(pattern) THEN "False"
    ELSE BoyerMooreLoop(text, pattern, build_bad_char_table(pattern), Len(pattern) - 1)

\* services.py:123-124: q and d
RabinKarpPrime == 101
RabinKarpBase == 256

RECURSIVE Power(_, _)
Power(b, e) == IF e = 0 THEN 1 ELSE b * Power(b, e - 1)

\* services.py:131-133: the hash of the first m characters, ord(c) being the code point.
RECURSIVE WindowHash(_, _, _, _)
WindowHash(str, i, m, hash) ==
    IF i >= m THEN hash
    ELSE WindowHash(str, i + 1, m, (RabinKarpBase * hash + str[i + 1]) % RabinKarpPrime)

\* A check that trusts the hash.
VerifiedAlways(text, pattern, i) == TRUE

\* services.py:140-144: the window at i equals the pattern, character by character.
Verified(text, pattern, i) ==
    \A j \in 0..(Len(pattern) - 1) : text[i + j + 1] = pattern[j + 1]

\* services.py:136-155: the windows from i on; Python's % is never negative, as is
\* the % of Integers.
RECURSIVE RabinKarpLoop(_, _, _, _, _, _)
RabinKarpLoop(text, pattern, i, text_hash, pattern_hash, h) ==
    LET n == Len(text)
        m == Len(pattern)
    IN IF i > n - m THEN "False"
       ELSE IF pattern_hash = text_hash /\ Verified(text, pattern, i) THEN "True"
       ELSE IF i < n - m
       THEN RabinKarpLoop(text, pattern, i + 1,
                          (RabinKarpBase * (text_hash - text[i + 1] * h)
                               + text[i + m + 1]) % RabinKarpPrime,
                          pattern_hash, h)
       ELSE "False"

\* services.py:113-155
rabin_karp_search(text, pattern) ==
    IF pattern = <<>> THEN "True"
    ELSE IF Len(pattern) > Len(text) THEN "False"
    ELSE RabinKarpLoop(text, pattern, 0,
                       WindowHash(text, 0, Len(pattern), 0),
                       WindowHash(pattern, 0, Len(pattern), 0),
                       Power(RabinKarpBase, Len(pattern) - 1) % RabinKarpPrime)

\* The automaton of one pattern: node k is the prefix of length k, the root is 0, and
\* fail of the root is None.
NoNode == -1

\* char in node.goto: node k has one child, k + 1, under pattern[k + 1].
HasGoto(pattern, node, char) == node < Len(pattern) /\ pattern[node + 1] = char

\* services.py:188-189 and 206-207: while node and char not in node.goto:
\*                                       node = node.fail
RECURSIVE FollowFailure(_, _, _, _)
FollowFailure(pattern, fail, node, char) ==
    IF node # NoNode /\ ~HasGoto(pattern, node, char)
    THEN FollowFailure(pattern, fail, fail[node], char)
    ELSE node

\* services.py:182-192: the breadth-first pass from node on; child.fail, then
\* child.out.update(child.fail.out).
RECURSIVE BuildFailure(_, _, _)
BuildFailure(pattern, node, automaton) ==
    IF node >= Len(pattern) THEN automaton
    ELSE LET char == pattern[node + 1]
             child == node + 1
             failure == FollowFailure(pattern, automaton.fail, automaton.fail[node], char)
             childFail == IF failure # NoNode /\ HasGoto(pattern, failure, char)
                          THEN failure + 1
                          ELSE 0
         IN BuildFailure(pattern, node + 1,
                [fail |-> [automaton.fail EXCEPT ![child] = childFail],
                 out |-> [automaton.out EXCEPT ![child] = @ \cup automaton.out[childFail]]])

\* services.py:163-194 for patterns = [pattern]: the trie, with out = {0} at the
\* pattern's end and fail = root for the root's child, then the breadth-first pass.
build_aho_corasick(pattern) ==
    BuildFailure(pattern, 1,
        [fail |-> [k \in 0..Len(pattern) |-> IF k = 0 THEN NoNode ELSE 0],
         out |-> [k \in 0..Len(pattern) |-> IF k = Len(pattern) THEN {0} ELSE {}]])

\* services.py:205-218: the characters of the text from position pos on.
RECURSIVE AhoCorasickLoop(_, _, _, _, _)
AhoCorasickLoop(text, pattern, automaton, pos, node) ==
    IF pos > Len(text) THEN "False"
    ELSE LET landed == FollowFailure(pattern, automaton.fail, node, text[pos])
         IN IF landed = NoNode
            THEN AhoCorasickLoop(text, pattern, automaton, pos + 1, 0)
            ELSE IF automaton.out[landed + 1] # {} THEN "True"
            ELSE AhoCorasickLoop(text, pattern, automaton, pos + 1, landed + 1)

\* services.py:196-218
aho_corasick_search(text, pattern) ==
    IF pattern = <<>> THEN "True"
    ELSE AhoCorasickLoop(text, pattern, build_aho_corasick(pattern), 1, 0)

\* The modes that answer for whole lines, and the substring modes.
LineModes == {"linear search", "hash set search", "binary search", "trie search"}
SubstringModes == {"bayer moore", "boyer moore", "rabin karp", "aho corasick"}
AlgoNames == LineModes \cup {"no such algorithm"}

execute_algorithm(algo_name, text, query) ==
    IF algo_name = "linear search" THEN linear_search(text, query)
    ELSE IF algo_name = "hash set search" THEN hash_set_search(text, query)
    ELSE IF algo_name = "binary search" THEN binary_search(text, query)
    ELSE IF algo_name = "trie search" THEN trie_search(text, query)
    ELSE IF algo_name \in {"bayer moore", "boyer moore"}
    THEN boyer_moore_search(text, query)
    ELSE IF algo_name = "rabin karp" THEN rabin_karp_search(text, query)
    ELSE IF algo_name = "aho corasick" THEN aho_corasick_search(text, query)
    ELSE "ValueError"

\* -------------------------------------------------------- security.py
DefaultMaxPayload == 1024

\* A Python value given as data: bytes, or something else (a str).
MkBytes(seq) == [type |-> "bytes", seq |-> seq]
MkStr(seq) == [type |-> "str", seq |-> seq]
NoValue == [type |-> "none", seq |-> <<>>]

\* n zero bytes.
Bytes(n) == MkBytes([i \in 1..n |-> 0])

\* What a function call gave: the exception it raised ("" if none) and the value it
\* returned.
Raised(exc) == [raised |-> exc, value |-> NoValue]
Returned(v) == [raised |-> "", value |-> v]
NoReturn == Returned(NoValue)

\* A guard that cuts the data to the maximum instead of rejecting it.
protect_buffer_truncating(data, max_payload_size) ==
    IF data.type # "bytes" THEN Raised("TypeError")
    ELSE LET max == IF max_payload_size <= 0 THEN DefaultMaxPayload ELSE max_payload_size
         IN IF Len(data.seq) > max THEN Returned(MkBytes(SubSeq(data.seq, 1, max)))
            ELSE Returned(data)

\* A guard that takes a non-positive maximum as "no limit".
protect_buffer_unlimited(data, max_payload_size) ==
    IF data.type # "bytes" THEN Raised("TypeError")
    ELSE IF max_payload_size > 0 /\ Len(data.seq) > max_payload_size
         THEN Raised("BufferError")
         ELSE Returned(data)

\* A guard that takes a negative maximum as "nothing is allowed".
protect_buffer_negative_rejects(data, max_payload_size) ==
    IF data.type # "bytes" THEN Raised("TypeError")
    ELSE IF max_payload_size < 0
    THEN IF Len(data.seq) > 0 THEN Raised("BufferError") ELSE Returned(data)
    ELSE LET max == IF max_payload_size = 0 THEN DefaultMaxPayload ELSE max_payload_size
         IN IF Len(data.seq) > max THEN Raised("BufferError") ELSE Returned(data)

\* security.py:71-108: TypeError for data that is not bytes; a maximum <= 0 is
\* replaced by 1024; BufferError for longer data; else the data itself.
protect_buffer(data, max_payload_size) ==
    IF data.type # "bytes" THEN Raised("TypeError")
    ELSE LET max == IF max_payload_size <= 0 THEN DefaultMaxPayload ELSE max_payload_size
         IN IF Len(data.seq) > max THEN Raised("BufferError") ELSE Returned(data)

\* ------------------------------------------------------------------ state
VARIABLES
    \* one execute_algorithm call
    sText, sQuery, sAlgo, sResult, sPc,
    \* one client_handler execution on one connection
    hPc,        \* the handler's position
    hCfgHasMax, \* whether server_config holds 'max_payload_size'
    hMax,       \* its value
    hPayload,   \* what the client sent: [kind, len]
    hData,      \* what recv returned: [kind, len]
    hExc,       \* the exception being handled ("" if none)
    hRaised,    \* an exception is propagating out of the handler
    hSvcCalls,  \* the service operations invoked, in order
    hSendCalls, \* number of conn.sendall calls
    hReplies,   \* the replies whose sendall returned normally, in order
    hRecvs,     \* number of conn.recv calls
    hCloses,    \* number of conn.close calls
    hResult,    \* the status of the record create_log returned ("" if none)
    hEvents,    \* the handler's calls on the connection and its steps, in order
    hAddr,      \* addr[0], the peer's host
    hRequest,   \* the values the payload carries under 'query' and 'algo'
    \* AppService.create_log calls, one thread each, and what they share
    corpusFile, \* the corpus file: [exists, lines, ver]; ver counts its edits
    reread,     \* AppService.reread_on_query
    data,       \* StorageRepository.data: [loaded, lines, ver]
    index,      \* StorageRepository.search_data and its mode: [built, mode, repr, ver]
    logFile,    \* the log file: [valid, entries]; not valid: no JSON document
    nextId,     \* the uuid4 values handed out so far
    nCalls,     \* create_log calls started so far
    pc,         \* each thread's position in create_log
    call,       \* each thread's arguments and locals
    hist,       \* each thread's record of what its call did
    serial,     \* the calls are made one after another
    versions,   \* the corpus file's lines after each edit (versions[v + 1]: after v edits)
    nAppends,   \* LogRepository.create_log calls that returned
    faults,     \* the repositories and the Log constructor may raise
    \* one protect_buffer call
    gData,      \* the data argument: a sequence of bytes, or NotBytes
    gMax,       \* the max_payload_size argument
    gResult,    \* [raised, value]
    gPc,
    \* one Log construction (Log.__init__ -> Log._set_query)
    qQuery,     \* the query argument: a sequence of code points
    qStored,    \* Log.query
    qPc,
    \* one build_trie followed by one search_trie
    tLines,     \* the words argument of build_trie
    tTarget,    \* the query argument of search_trie
    tResult,
    tPc,
    \* one LogRepository.read_logs call beside the create_log calls
    rPc,
    rObs,       \* what it gave, and the lists the file held around it
    \* one create_logs_parallel call
    pPc,
    pReqs,      \* the requests argument
    pFut,       \* each future: "queued", "running", "finished"
    pOut,       \* what each create_log call gave: [raised, value]
    pOrder,     \* the futures as as_completed yielded them
    pResults,   \* results
    \* Log.create calls of several threads on one Log
    cPc,        \* each thread's position in create
    cArgs,      \* each thread's found and exec_time
    cStamp,     \* what datetime.now() returned to each thread
    cNow,       \* the clock
    cLock,      \* the thread that holds Log._lock (0: none)
    cLog,       \* the Log's status, execution_time and timestamp
    \* the listener (main.py:57-60) and the handler threads it started
    lPc,
    lPending,   \* connections waiting to be accepted
    lAccepted,  \* connections accept has returned
    lThreads,   \* the handler threads started, in order: [conn, state]
    \* main() before its accept loop (main.py:35-55)
    ssl_enabled,
    certExists, \* os.path.exists(certfile)
    keyExists,  \* os.path.exists(keyfile)
    mExc,       \* the exception that left main ("" if none)
    \* one boyer_moore_search call, one iteration of its outer loop at a time
    bmI,        \* i, the text position under the pattern's last character
    bmShift,    \* char_shift, the last shift applied (0: none yet)
    \* one Log.to_dict call beside the Log.create calls
    dPc,
    dOut,       \* the execution_time, timestamp and status it has read
    \* one LogRepository on one path, and AppService.read_logs over it
    repoFile,   \* the file at filepath: [exists, valid, entries]
    repoPc,
    repoCalls   \* the calls made and what each gave, in order

searchVars == <<sText, sQuery, sAlgo, sResult, sPc>>
handlerVars == <<hPc, hCfgHasMax, hMax, hPayload, hData, hExc, hRaised,
                 hSvcCalls, hSendCalls, hReplies, hRecvs, hCloses, hResult, hEvents,
                 hAddr, hRequest>>
appVars == <<corpusFile, reread, data, index, logFile, nextId, nCalls, pc, call, hist,
             serial, versions, nAppends, faults>>
guardVars == <<gData, gMax, gResult, gPc>>
queryVars == <<qQuery, qStored, qPc>>
trieVars == <<tLines, tTarget, tResult, tPc>>
pureVars == <<guardVars, queryVars, trieVars>>
readerVars == <<rPc, rObs>>
parallelVars == <<pPc, pReqs, pFut, pOut, pOrder, pResults>>
createVars == <<cPc, cArgs, cStamp, cNow, cLock, cLog>>
listenerVars == <<lPc, lPending, lAccepted, lThreads>>
startupVars == <<ssl_enabled, certExists, keyExists, mExc>>
bmVars == <<bmI, bmShift>>
dictVars == <<dPc, dOut>>
repoVars == <<repoFile, repoPc, repoCalls>>
moreVars == <<startupVars, bmVars, dictVars, repoVars>>
extraVars == <<readerVars, parallelVars, createVars, listenerVars, moreVars>>
vars == <<searchVars, handlerVars, appVars, pureVars, extraVars>>

\* The component is not part of the specification at hand.
SearchOff ==
    /\ sText = <<>> /\ sQuery = <<>> /\ sAlgo = "" /\ sResult = "none" /\ sPc = "off"

\* A payload that carries neither 'query' nor 'algo'.
NoRequest == [query |-> <<>>, algo |-> ""]

HandlerOff ==
    /\ hPc = "off" /\ hCfgHasMax = TRUE /\ hMax = 0
    /\ hPayload = [kind |-> "", len |-> 0] /\ hData = [kind |-> "", len |-> 0]
    /\ hExc = "" /\ hRaised = FALSE /\ hSvcCalls = <<>> /\ hSendCalls = 0
    /\ hReplies = <<>> /\ hRecvs = 0 /\ hCloses = 0
    /\ hResult = "" /\ hEvents = <<>>
    /\ hAddr = "" /\ hRequest = NoRequest

GuardOff == gData = NoValue /\ gMax = 0 /\ gResult = NoReturn /\ gPc = "off"

QueryOff == qQuery = <<>> /\ qStored = <<>> /\ qPc = "off"

TrieOff == tLines = <<>> /\ tTarget = <<>> /\ tResult = "none" /\ tPc = "off"

PureOff == GuardOff /\ QueryOff /\ TrieOff

NoObs == [raised |-> "", entries |-> <<>>, allowed |-> {}]

ReaderOff == rPc = "idle" /\ rObs = NoObs

ParallelOff ==
    /\ pPc = "off" /\ pReqs = <<>> /\ pFut = <<>> /\ pOut = <<>>
    /\ pOrder = <<>> /\ pResults = <<>>

\* The three fields Log.create sets, before it has: None (0 for the two numbers).
NoFields == [status |-> "None", execution_time |-> 0, timestamp |-> 0]

CreateOff ==
    /\ cPc = <<>> /\ cArgs = <<>> /\ cStamp = <<>> /\ cNow = 0 /\ cLock = 0
    /\ cLog = NoFields

ListenerOff == lPc = "off" /\ lPending = 0 /\ lAccepted = 0 /\ lThreads = <<>>

StartupOff ==
    /\ ssl_enabled = FALSE /\ certExists = FALSE /\ keyExists = FALSE /\ mExc = ""

BmOff == bmI = 0 /\ bmShift = 0

DictOff == dPc = "off" /\ dOut = NoFields

NoFile == [exists |-> FALSE, valid |-> FALSE, entries |-> <<>>]

RepoOff == repoFile = NoFile /\ repoPc = "off" /\ repoCalls = <<>>

MoreOff == StartupOff /\ BmOff /\ DictOff /\ RepoOff

ExtraOff == ReaderOff /\ ParallelOff /\ CreateOff /\ ListenerOff /\ MoreOff

\* ------------------------------------------- the threads' inputs and locals
NumThreads == 2
MaxCalls == 2
MaxEdits == 1

Threads == 1..NumThreads

WordA == <<ChA>>
WordB == <<ChB>>
CorpusContents == {<<WordA>>, <<WordB, WordA>>}
Missing(ver) == [exists |-> FALSE, lines |-> <<>>, ver |-> ver]
Present(lines, ver) == [exists |-> TRUE, lines |-> lines, ver |-> ver]
QueryStrings == {WordA, WordB}
ModeNames == {"naive", "binary", "bogus"}

NoData == [loaded |-> FALSE, lines |-> <<>>, ver |-> 0]
NoIndex == [built |-> FALSE, mode |-> "", repr |-> <<>>, ver |-> 0]
\* A Log not constructed yet.
NoLog == [id |-> 0, query |-> <<>>, requesting_ip |-> 0, execution_time |-> "None",
          timestamp |-> "None", status |-> "None", _lock |-> "None"]

NoCall == [query |-> <<>>, algo |-> "", found |-> "", id |-> 0, logs |-> <<>>,
           status |-> "", error |-> "", log |-> NoLog]
NoHist == [loads |-> 0,                \* load_file calls made
           loadedAtStart |-> FALSE,    \* data was loaded when the call began
           verAtStart |-> 0,           \* edits of the corpus file before the call began
           dataAtStart |-> <<>>,       \* data when the call began
           fileAtLoad |-> Missing(0),  \* the corpus file when load_file ran
           used |-> NoIndex,           \* the index search ran on
           fault |-> "",               \* the exception a dependency raised in the call
           rebuilt |-> FALSE,          \* prepare built a new index
           creates |-> 0,              \* Log.create calls on the call's Log
           persisted |-> 0]            \* entries the call wrote to the log store

AppOff ==
    /\ corpusFile = Missing(0)
    /\ serial = FALSE /\ versions = <<>> /\ nAppends = 0 /\ faults = FALSE
    /\ reread = FALSE /\ data = NoData /\ index = NoIndex
    /\ logFile = [valid |-> TRUE, entries |-> <<>>]
    /\ nextId = 0 /\ nCalls = 0
    /\ pc = [t \in Threads |-> "off"]
    /\ call = [t \in Threads |-> NoCall]
    /\ hist = [t \in Threads |-> NoHist]

\* ---------------------------------------------- specification: one search
SearchInit ==
    /\ sText \in Texts
    /\ sQuery \in Queries
    /\ sAlgo \in AlgoNames
    /\ sResult = "none"
    /\ sPc = "call"
    /\ HandlerOff
    /\ AppOff
    /\ PureOff
    /\ ExtraOff

ExecuteAlgorithm ==
    /\ sPc = "call"
    /\ sResult' = execute_algorithm(sAlgo, sText, sQuery)
    /\ sPc' = "returned"
    /\ UNCHANGED <<sText, sQuery, sAlgo, handlerVars, appVars, pureVars,
                   extraVars>>

SearchNext == ExecuteAlgorithm

SpecSearch == SearchInit /\ [][SearchNext]_vars

\* ------------------------ specification: one search in a substring mode
MaxSubTextLen == 4
MaxPatternLen == 3

\* A code point whose hash is that of 'a': ord('a') + q.
ChCollide == 198

SubAlphabet == {ChA, ChB, ChCollide}

RECURSIVE StringsOver(_, _)
StringsOver(alphabet, n) ==
    IF n = 0 THEN {<<>>}
    ELSE LET shorter == StringsOver(alphabet, n - 1)
         IN shorter \cup {Append(x, c) : x \in {y \in shorter : Len(y) = n - 1},
                                         c \in alphabet}

SubstringInit ==
    /\ sText \in StringsOver(SubAlphabet, MaxSubTextLen)
    /\ sQuery \in StringsOver(SubAlphabet, MaxPatternLen)
    /\ sAlgo \in SubstringModes
    /\ sResult = "none"
    /\ sPc = "call"
    /\ HandlerOff
    /\ AppOff
    /\ PureOff
    /\ ExtraOff

SpecSubstring == SubstringInit /\ [][SearchNext]_vars

\* C36: for every text and every pattern, boyer_moore_search, rabin_karp_search and
\* aho_corasick_search each return the same boolean as linear_search: true exactly when
\* the pattern occurs as a contiguous substring of the text, and true for the empty
\* pattern.
C36_SubstringModesAgree ==
    (sPc = "returned" /\ sAlgo \in SubstringModes) =>
        /\ sResult = linear_search(sText, sQuery)
        /\ sResult = PyBool(SubstringIn(sQuery, sText))
        /\ sQuery = <<>> => sResult = "True"
        /\ boyer_moore_search(sText, sQuery) = sResult
        /\ rabin_karp_search(sText, sQuery) = sResult
        /\ aho_corasick_search(sText, sQuery) = sResult

\* Rabin-Karp has answered false for a window whose hash is the pattern's.
C36_Witness ==
    /\ sPc = "returned" /\ sAlgo = "rabin karp" /\ sResult = "False"
    /\ sQuery = <<ChA, ChB>> /\ sText = <<ChB, ChCollide, ChB, ChA>>

\* ------- specification: boyer_moore_search, one loop iteration at a time
BoyerMooreInit ==
    /\ sText \in StringsOver(SubAlphabet, MaxSubTextLen)
    /\ sQuery \in StringsOver(SubAlphabet, MaxPatternLen)
    /\ sAlgo = "boyer moore"
    /\ sResult = "none"
    /\ sPc = "call"
    /\ bmI = 0 /\ bmShift = 0
    /\ HandlerOff /\ AppOff /\ PureOff
    /\ ReaderOff /\ ParallelOff /\ CreateOff /\ ListenerOff
    /\ StartupOff /\ DictOff /\ RepoOff

\* services.py:83-94: the two early returns, then i = m - 1.
BoyerMooreEnter ==
    /\ sPc = "call"
    /\ IF Len(sQuery) = 0
       THEN sResult' = "True" /\ sPc' = "returned" /\ UNCHANGED bmI
       ELSE IF Len(sText) < Len(sQuery)
       THEN sResult' = "False" /\ sPc' = "returned" /\ UNCHANGED bmI
       ELSE bmI' = Len(sQuery) - 1 /\ sPc' = "loop" /\ UNCHANGED sResult
    /\ UNCHANGED bmShift

\* services.py:95-111: the test of the while, and one pass through its body.
BoyerMooreIterate ==
    /\ sPc = "loop"
    /\ IF bmI >= Len(sText)
       THEN sResult' = "False" /\ sPc' = "returned" /\ UNCHANGED <<bmI, bmShift>>
       ELSE IF CompareBack(sText, sQuery, Len(sQuery) - 1, bmI) = -1
       THEN sResult' = "True" /\ sPc' = "returned" /\ UNCHANGED <<bmI, bmShift>>
       ELSE /\ bmShift' = CharShift(build_bad_char_table(sQuery), sText[bmI + 1],
                                    Len(sQuery))
            /\ bmI' = bmI + bmShift'
            /\ UNCHANGED <<sResult, sPc>>

BoyerMooreNext ==
    /\ BoyerMooreEnter \/ BoyerMooreIterate
    /\ UNCHANGED <<sText, sQuery, sAlgo, handlerVars, appVars, pureVars, readerVars,
                   parallelVars, createVars, listenerVars, startupVars, dictVars,
                   repoVars>>

\* The call runs on: a step that can be taken is taken.
SpecBoyerMoore ==
    BoyerMooreInit /\ [][BoyerMooreNext]_vars /\ WF_vars(BoyerMooreNext)

\* C40: boyer_moore_search terminates for every text and non-empty pattern: each
\* iteration of the outer loop that does not return advances the window index by a
\* shift of at least 1, so the index reaches the end of the text and the call returns.
C40_BoyerMooreTerminates ==
    /\ [][(sPc = "loop" /\ sPc' = "loop") => (bmShift' >= 1 /\ bmI' = bmI + bmShift')]_vars
    /\ <>(sPc = "returned")

\* A search for a pattern of three characters has returned false, its index past the
\* end of the text after a shift by one.
C40_Witness ==
    /\ sPc = "returned" /\ sResult = "False" /\ Len(sQuery) = 3
    /\ Len(sText) = 4 /\ bmI >= Len(sText) /\ bmShift = 1

\* The lines of a corpus text: its maximal newline-free pieces, the piece after a
\* final newline not counted.
RECURSIVE LinesFrom(_, _, _)
LinesFrom(text, i, cur) ==
    IF i > Len(text)
    THEN IF cur = <<>> THEN {} ELSE {cur}
    ELSE IF text[i] = NL THEN {cur} \cup LinesFrom(text, i + 1, <<>>)
    ELSE LinesFrom(text, i + 1, Append(cur, text[i]))

CorpusLines(text) == LinesFrom(text, 1, <<>>)

\* C1: in every line mode of execute_algorithm the search answers True exactly when
\* the target equals one whole line of the corpus, and the four modes agree on every
\* (corpus, target) pair.
C1_ExactLineMatch ==
    (sPc = "returned" /\ sAlgo \in LineModes) =>
        /\ sResult = PyBool(sQuery \in CorpusLines(sText))
        /\ \A m \in LineModes : execute_algorithm(m, sText, sQuery) = sResult

\* ------------------------------------ specification: one protect_buffer
MaxGuardLen == 3

\* The byte values drawn for short buffers.
GuardByteValues == {0, 255}

RECURSIVE ByteStringsUpTo(_)
ByteStringsUpTo(n) ==
    IF n = 0 THEN {<<>>}
    ELSE LET shorter == ByteStringsUpTo(n - 1)
         IN shorter \cup {Append(b, v) : b \in {x \in shorter : Len(x) = n - 1},
                                         v \in GuardByteValues}

\* b"data" (test_security.py:98)
FourBytes == MkBytes(<<100, 97, 116, 97>>)

\* Short buffers of every content, b"data", long ones around the default maximum, and
\* a str.
GuardData ==
    {MkBytes(b) : b \in ByteStringsUpTo(MaxGuardLen)}
    \cup {FourBytes}
    \cup {Bytes(n) : n \in (DefaultMaxPayload - 1)..(DefaultMaxPayload + 1)}
    \cup {MkStr(<<ChA>>)}

GuardMaxes ==
    ((0 - 2)..(MaxGuardLen + 1))
    \cup ((DefaultMaxPayload - 1)..(DefaultMaxPayload + 1))

GuardInit ==
    /\ gData \in GuardData
    /\ gMax \in GuardMaxes
    /\ gResult = NoReturn
    /\ gPc = "call"
    /\ SearchOff /\ HandlerOff /\ AppOff /\ QueryOff /\ TrieOff /\ ExtraOff

ProtectBuffer ==
    /\ gPc = "call"
    /\ gResult' = protect_buffer(gData, gMax)
    /\ gPc' = "returned"
    /\ UNCHANGED <<gData, gMax, queryVars, trieVars, searchVars, handlerVars, appVars,
                   extraVars>>

GuardNext == ProtectBuffer

SpecGuard == GuardInit /\ [][GuardNext]_vars

\* C13: for a positive max_payload_size, protect_buffer returns the data unchanged
\* when it is at most max_payload_size bytes long (as long exactly, and empty,
\* included) and raises BufferError when it is longer; it never returns a shorter
\* buffer.
C13_GuardAcceptsUpToMax ==
    (gPc = "returned" /\ gData.type = "bytes" /\ gMax > 0) =>
        IF Len(gData.seq) <= gMax
        THEN gResult.raised = "" /\ gResult.value = gData
        ELSE gResult.raised = "BufferError" /\ gResult.value = NoValue

\* Data one byte longer than the maximum has been rejected.
C13_Witness ==
    /\ gPc = "returned" /\ gData.type = "bytes" /\ gMax > 0
    /\ Len(gData.seq) = gMax + 1 /\ gResult.raised = "BufferError"

MaxTrieLines == 2
MaxLineLen == 2

TrieAlphabet == {ChA, ChB, HASH}

RECURSIVE LinesUpTo(_)
LinesUpTo(n) ==
    IF n = 0 THEN {<<>>}
    ELSE LET shorter == LinesUpTo(n - 1)
         IN shorter \cup {Append(l, c) : l \in {x \in shorter : Len(x) = n - 1},
                                         c \in TrieAlphabet}

RECURSIVE LineListsUpTo(_)
LineListsUpTo(n) ==
    IF n = 0 THEN {<<>>}
    ELSE LET shorter == LineListsUpTo(n - 1)
         IN shorter \cup {Append(ls, l) : ls \in {x \in shorter : Len(x) = n - 1},
                                          l \in LinesUpTo(MaxLineLen)}

TrieInit ==
    /\ tLines \in LineListsUpTo(MaxTrieLines)
    /\ tTarget \in LinesUpTo(MaxLineLen)
    /\ tResult = "none"
    /\ tPc = "call"
    /\ SearchOff /\ HandlerOff /\ AppOff /\ GuardOff /\ QueryOff /\ ExtraOff

\* services.py:66-67 on a list of words: build_trie(words), then search_trie.
SearchTrie ==
    /\ tPc = "call"
    /\ tResult' = LET trie == build_trie(tLines)
                  IN IF trie.t = "error" THEN "TypeError" ELSE search_trie(trie, tTarget)
    /\ tPc' = "returned"
    /\ UNCHANGED <<tLines, tTarget, guardVars, queryVars, searchVars, handlerVars,
                   appVars, extraVars>>

TrieNext == SearchTrie

SpecTrie == TrieInit /\ [][TrieNext]_vars

\* C18: search_trie(build_trie(lines), target) is true exactly when target is one of
\* the lines; a target that is only a proper prefix of a line gives false.
C18_TrieFindsExactlyTheLines ==
    tPc = "returned" => tResult = PyBool(tTarget \in Range(tLines))

\* ----------------------------------------------------------- models.py
\* Code points of each UTF-8 width, a lone surrogate (which str.encode refuses),
\* and U+FFFD, which decode(errors="replace") puts for bytes it cannot decode.
CpEAcute == 233
CpEuro == 8364
CpSmile == 128522
CpSurrogate == 55296
ReplacementChar == 65533

QueryByteLimit == 1024
FallbackChars == 256

IsSurrogate(c) == c >= 55296 /\ c <= 57343

\* The UTF-8 bytes of one code point.
EncodePoint(c) ==
    IF c < 128 THEN <<c>>
    ELSE IF c < 2048 THEN <<192 + (c \div 64), 128 + (c % 64)>>
    ELSE IF c < 65536
         THEN <<224 + (c \div 4096), 128 + ((c \div 64) % 64), 128 + (c % 64)>>
         ELSE <<240 + (c \div 262144), 128 + ((c \div 4096) % 64),
                128 + ((c \div 64) % 64), 128 + (c % 64)>>

\* The bytes of str[lo..hi], the code points one after another.
RECURSIVE EncodeRange(_, _, _)
EncodeRange(str, lo, hi) ==
    IF lo > hi THEN <<>>
    ELSE IF lo = hi THEN EncodePoint(str[lo])
    ELSE LET mid == (lo + hi) \div 2
         IN EncodeRange(str, lo, mid) \o EncodeRange(str, mid + 1, hi)

\* str.encode("utf-8"): UnicodeEncodeError for a str that holds a surrogate.
Encode(str) ==
    IF \E i \in 1..Len(str) : IsSurrogate(str[i])
    THEN Raised("UnicodeEncodeError")
    ELSE Returned(MkBytes(EncodeRange(str, 1, Len(str))))

\* b & 0xC0 == 0x80: a continuation byte.
IsContinuation(b) == b \div 64 = 2

\* The number of bytes of the sequence a lead byte opens.
SequenceLength(b) ==
    IF b < 128 THEN 1 ELSE IF b < 224 THEN 2 ELSE IF b < 240 THEN 3 ELSE 4

\* The code point of the complete sequence that starts at bytes[i].
DecodePoint(bytes, i) ==
    LET n == SequenceLength(bytes[i])
    IN IF n = 1 THEN bytes[i]
       ELSE IF n = 2 THEN (bytes[i] - 192) * 64 + (bytes[i + 1] - 128)
       ELSE IF n = 3
            THEN (bytes[i] - 224) * 4096 + (bytes[i + 1] - 128) * 64 + (bytes[i + 2] - 128)
            ELSE (bytes[i] - 240) * 262144 + (bytes[i + 1] - 128) * 4096
                 + (bytes[i + 2] - 128) * 64 + (bytes[i + 3] - 128)

\* decode("utf-8", errors="replace") of bytes[i..hi], left to right: a sequence cut
\* by the end of the data, and a continuation byte with no lead byte, give U+FFFD.
RECURSIVE DecodeFrom(_, _, _)
DecodeFrom(bytes, i, hi) ==
    IF i > hi THEN <<>>
    ELSE IF IsContinuation(bytes[i])
         THEN <<ReplacementChar>> \o DecodeFrom(bytes, i + 1, hi)
    ELSE IF i + SequenceLength(bytes[i]) - 1 > hi THEN <<ReplacementChar>>
    ELSE <<DecodePoint(bytes, i)>> \o DecodeFrom(bytes, i + SequenceLength(bytes[i]), hi)

\* The last position <= i, and > lo, that is no continuation byte (lo if none).
RECURSIVE SequenceStart(_, _, _)
SequenceStart(bytes, i, lo) ==
    IF i <= lo THEN lo
    ELSE IF IsContinuation(bytes[i]) THEN SequenceStart(bytes, i - 1, lo)
    ELSE i

\* The same decoding, of bytes[lo..hi] split at the start of a sequence.
RECURSIVE DecodeRange(_, _, _)
DecodeRange(bytes, lo, hi) ==
    IF hi - lo < 8 THEN DecodeFrom(bytes, lo, hi)
    ELSE LET mid == SequenceStart(bytes, (lo + hi) \div 2, lo)
         IN IF mid = lo THEN DecodeFrom(bytes, lo, hi)
            ELSE DecodeRange(bytes, lo, mid - 1) \o DecodeRange(bytes, mid, hi)

DecodeReplace(bytes) == DecodeRange(bytes, 1, Len(bytes))

\* models.py:48-49: while truncated and truncated[-1] & 0xC0 == 0x80:
\*                       truncated = truncated[:-1]
RECURSIVE StripContinuation(_)
StripContinuation(truncated) ==
    IF truncated # <<>> /\ IsContinuation(truncated[Len(truncated)])
    THEN StripContinuation(SubSeq(truncated, 1, Len(truncated) - 1))
    ELSE truncated

Prefix(seq, n) == SubSeq(seq, 1, IF Len(seq) < n THEN Len(seq) ELSE n)

\* Log._set_query (models.py:33-56): the value given to self.query.
set_query(query) ==
    LET encoded_query == Encode(query)
    IN IF encoded_query.raised # ""
       THEN Prefix(query, FallbackChars)
       ELSE IF Len(encoded_query.value.seq) > QueryByteLimit
       THEN DecodeReplace(StripContinuation(Prefix(encoded_query.value.seq,
                                                   QueryByteLimit)))
       ELSE query

\* --------------------------------------- specification: one Log construction
MaxTailLen == 2

QueryPoints == {ChA, CpEAcute, CpEuro, CpSmile, CpSurrogate}

RECURSIVE PointStringsUpTo(_)
PointStringsUpTo(n) ==
    IF n = 0 THEN {<<>>}
    ELSE LET shorter == PointStringsUpTo(n - 1)
         IN shorter \cup {Append(p, c) : p \in {x \in shorter : Len(x) = n - 1},
                                         c \in QueryPoints}

Repeat(c, n) == [i \in 1..n |-> c]

\* A query is a run of one code point followed by a short tail of any code points:
\* short queries, ASCII runs that end around the limit and one far beyond it, and
\* runs of a 4-byte code point that end at and beyond the limit.
QueryRuns ==
    {Repeat(ChA, 0), Repeat(ChA, 1100), Repeat(CpSmile, 256), Repeat(CpSmile, 257)}
    \cup {Repeat(ChA, n) : n \in (QueryByteLimit - 4)..QueryByteLimit}

LogQueries == {run \o tail : run \in QueryRuns, tail \in PointStringsUpTo(MaxTailLen)}

QueryInit ==
    /\ qQuery \in LogQueries
    /\ qStored = <<>>
    /\ qPc = "init"
    /\ SearchOff /\ HandlerOff /\ AppOff /\ GuardOff /\ TrieOff /\ ExtraOff

\* Log.__init__ (models.py:23-31): self.query = "", then self._set_query(query).
LogInit ==
    /\ qPc = "init"
    /\ qStored' = set_query(qQuery)
    /\ qPc' = "stored"
    /\ UNCHANGED <<qQuery, guardVars, trieVars, searchVars, handlerVars, appVars,
                   extraVars>>

QueryNext == LogInit

SpecQuery == QueryInit /\ [][QueryNext]_vars

Encodable(str) == Encode(str).raised = ""

Utf8Len(str) == Len(Encode(str).value.seq)

IsPrefixOf(p, str) == Len(p) <= Len(str) /\ \A i \in 1..Len(p) : p[i] = str[i]

\* C16: for a query whose UTF-8 encoding is longer than 1024 bytes, the stored query
\* is a prefix of the query made of whole code points, with no replacement character
\* in place of a cut one.
C16_TruncatesAtCodePoint ==
    (qPc = "stored" /\ Encodable(qQuery) /\ Utf8Len(qQuery) > 1024) =>
        IsPrefixOf(qStored, qQuery)

\* C17: the stored query encodes to at most 1024 UTF-8 bytes, and a query whose
\* encoding is at most 1024 bytes is stored unchanged.
C17_StoredWithinLimit ==
    (qPc = "stored" /\ Encodable(qQuery)) =>
        /\ Encodable(qStored) /\ Utf8Len(qStored) <= 1024
        /\ Utf8Len(qQuery) <= 1024 => qStored = qQuery

\* C19: an unknown mode name never raises: execute_algorithm answers as the linear
\* search does.
C19_UnknownModeFallsBack ==
    (sPc = "returned" /\ sAlgo \notin LineModes) =>
        sResult = linear_search(sText, sQuery)

\* ------------------------------------- specification: one client_handler
MaxPayloadLen == 3
MaxReplyLen == 4

PayloadKinds == {"create_log", "create_log_no_query", "create_log_no_algo",
                 "read_logs", "other_action", "json_not_object", "not_json"}
ResultStatuses == {"STRING_EXISTS", "STRING_NOT_FOUND", "error"}

\* str(e) of the exceptions the handler can catch.
StrOfException(exc) ==
    IF exc = "ValueError" THEN "negative buffersize in recv"
    ELSE IF exc = "BufferError" THEN "Payload too large. Max allowed: N bytes"
    ELSE IF exc = "JSONDecodeError" THEN "Expecting value: line 1 column 1 (char 0)"
    ELSE IF exc = "AttributeError" THEN "'list' object has no attribute 'get'"
    ELSE IF exc = "KeyError" THEN "'query'"
    ELSE IF exc = "ServiceError" THEN "Something went wrong"
    ELSE "[Errno 104] Connection reset by peer"

\* What sendall is given: json.dumps(...) of a result, of the list of logs, or of
\* {'error': message}; len is the number of bytes.
JsonReply(kind, message, len) ==
    [framing |-> "json", kind |-> kind, message |-> message, status |-> "",
     len |-> len]

\* main.py:24: json.dumps(result) of the record create_log returned, which carries
\* its status under the key 'status'.
ResultReply(status, len) == [JsonReply("result", "", len) EXCEPT !.status = status]

\* conn.recv(n) of a payload: at most n of its bytes.  A cut JSON document, and no
\* bytes at all, are not JSON.
Received(payload, n) ==
    IF payload.len <= n THEN payload
    ELSE [kind |-> "not_json", len |-> n]

\* The peers' hosts.
PeerHosts == {"127.0.0.1", "192.0.2.7"}

\* What a payload of a kind carries under 'query' and 'algo'.
RequestOf(kind, query, algo) ==
    [query |-> IF kind \in {"create_log", "create_log_no_algo"} THEN query ELSE <<>>,
     algo |-> IF kind \in {"create_log", "create_log_no_query"} THEN algo ELSE ""]

\* A handler that reports the address the server listens on.
CreateLogCallFromAnywhere(addr, request) ==
    [op |-> "create_log", requesting_ip |-> "0.0.0.0",
     query_string |-> request.query, algo_name |-> request.algo]

\* main.py:19-23: app_service.create_log(requesting_ip=addr[0],
\* query_string=request['query'], algo_name=request['algo'])
CreateLogCall(addr, request) ==
    [op |-> "create_log", requesting_ip |-> addr,
     query_string |-> request.query, algo_name |-> request.algo]

\* main.py:26: app_service.read_logs()
ReadLogsCall ==
    [op |-> "read_logs", requesting_ip |-> "", query_string |-> <<>>, algo_name |-> ""]

HandlerInit ==
    /\ hPc = "config"
    /\ hCfgHasMax \in BOOLEAN
    /\ hMax \in (-1)..MaxPayloadLen
    /\ hPayload \in [kind : PayloadKinds, len : 1..MaxPayloadLen]
    /\ hAddr \in PeerHosts
    /\ \E q \in QueryStrings, a \in ModeNames : hRequest = RequestOf(hPayload.kind, q, a)
    /\ hData = [kind |-> "", len |-> 0]
    /\ hExc = "" /\ hRaised = FALSE /\ hSvcCalls = <<>> /\ hSendCalls = 0
    /\ hReplies = <<>> /\ hRecvs = 0 /\ hCloses = 0
    /\ hResult = "" /\ hEvents = <<>>
    /\ SearchOff
    /\ AppOff
    /\ PureOff
    /\ ExtraOff

\* main.py:11, before the try: a missing key raises KeyError out of the handler.
HConfig ==
    /\ hPc = "config"
    /\ IF hCfgHasMax
       THEN hPc' = "recv" /\ UNCHANGED hRaised
       ELSE hPc' = "crashed" /\ hRaised' = TRUE
    /\ UNCHANGED <<hAddr, hRequest, hCfgHasMax, hMax, hPayload, hData, hExc, hSvcCalls, hSendCalls,
                   hReplies, hRecvs, hCloses, hResult, hEvents, searchVars, appVars,
                   pureVars, extraVars>>

\* main.py:13: data = conn.recv(max_payload_size)
HRecv ==
    /\ hPc = "recv"
    /\ hRecvs' = hRecvs + 1
    /\ \E ok \in BOOLEAN :
          IF hMax < 0
          THEN hExc' = "ValueError" /\ hPc' = "except" /\ UNCHANGED hData
          ELSE IF ok
          THEN hData' = Received(hPayload, hMax) /\ hPc' = "protect" /\ UNCHANGED hExc
          ELSE hExc' = "OSError" /\ hPc' = "except" /\ UNCHANGED hData
    /\ hEvents' = Append(hEvents, "read")
    /\ UNCHANGED <<hAddr, hRequest, hCfgHasMax, hMax, hPayload, hRaised, hSvcCalls, hSendCalls,
                   hReplies, hCloses, hResult, searchVars, appVars, pureVars,
                   extraVars>>

\* main.py:14: data = protect_buffer(data, max_payload_size)
HProtect ==
    /\ hPc = "protect"
    /\ IF protect_buffer(Bytes(hData.len), hMax).raised = ""
       THEN hPc' = "decode" /\ UNCHANGED hExc
       ELSE hExc' = "BufferError" /\ hPc' = "except"
    /\ UNCHANGED <<hAddr, hRequest, hCfgHasMax, hMax, hPayload, hData, hRaised, hSvcCalls, hSendCalls,
                   hReplies, hRecvs, hCloses, hResult, hEvents, searchVars, appVars,
                   pureVars, extraVars>>

\* main.py:15-17: json.loads(data.decode()); request.get('action')
HDecode ==
    /\ hPc = "decode"
    /\ IF hData.kind = "not_json" \/ hData.len = 0
       THEN hExc' = "JSONDecodeError" /\ hPc' = "except"
       ELSE IF hData.kind = "json_not_object"
       THEN hExc' = "AttributeError" /\ hPc' = "except"
       ELSE hPc' = "dispatch" /\ UNCHANGED hExc
    /\ hEvents' = Append(hEvents, "decode")
    /\ UNCHANGED <<hAddr, hRequest, hCfgHasMax, hMax, hPayload, hData, hRaised, hSvcCalls, hSendCalls,
                   hReplies, hRecvs, hCloses, hResult, searchVars, appVars, pureVars,
                   extraVars>>

\* main.py:18-29: the branch on action; request['query'] and request['algo'] are
\* evaluated before create_log is called.
HDispatch ==
    /\ hPc = "dispatch"
    /\ IF hData.kind \in {"create_log_no_query", "create_log_no_algo"}
       THEN hExc' = "KeyError" /\ hPc' = "except"
       ELSE /\ UNCHANGED hExc
            /\ hPc' = IF hData.kind = "create_log" THEN "create_log"
                      ELSE IF hData.kind = "read_logs" THEN "read_logs"
                      ELSE "send_invalid_action"
    /\ hEvents' = Append(hEvents, "dispatch")
    /\ UNCHANGED <<hAddr, hRequest, hCfgHasMax, hMax, hPayload, hData, hRaised, hSvcCalls, hSendCalls,
                   hReplies, hRecvs, hCloses, hResult, searchVars, appVars, pureVars,
                   extraVars>>

\* main.py:19-23 and 25-26: the service call, which returns or raises.
HService ==
    /\ hPc \in {"create_log", "read_logs"}
    /\ hSvcCalls' = Append(hSvcCalls, IF hPc = "create_log"
                                      THEN CreateLogCall(hAddr, hRequest)
                                      ELSE ReadLogsCall)
    /\ \E raises \in BOOLEAN :
          IF raises
          THEN hExc' = "ServiceError" /\ hPc' = "except" /\ UNCHANGED hResult
          ELSE /\ UNCHANGED hExc
               /\ IF hPc = "create_log"
                  THEN hPc' = "send_result" /\ hResult' \in ResultStatuses
                  ELSE hPc' = "send_logs" /\ UNCHANGED hResult
    /\ UNCHANGED <<hAddr, hRequest, hCfgHasMax, hMax, hPayload, hData, hRaised, hSendCalls,
                   hReplies, hRecvs, hCloses, hEvents, searchVars, appVars, pureVars,
                   extraVars>>

\* main.py:24, 27, 29: conn.sendall(json.dumps(...).encode()) inside the try.
HSend ==
    /\ hPc \in {"send_result", "send_logs", "send_invalid_action"}
    /\ hSendCalls' = hSendCalls + 1
    /\ \E ok \in BOOLEAN, n \in 1..MaxReplyLen :
          IF ok
          THEN /\ hReplies' = Append(hReplies,
                      IF hPc = "send_result" THEN ResultReply(hResult, n)
                      ELSE IF hPc = "send_logs" THEN JsonReply("logs", "", n)
                      ELSE JsonReply("error", "Invalid action", n))
               /\ hPc' = "close" /\ UNCHANGED hExc
          ELSE hExc' = "OSError" /\ hPc' = "except" /\ UNCHANGED hReplies
    /\ hEvents' = Append(hEvents, "send")
    /\ UNCHANGED <<hAddr, hRequest, hCfgHasMax, hMax, hPayload, hData, hRaised, hSvcCalls,
                   hRecvs, hCloses, hResult, searchVars, appVars, pureVars,
                   extraVars>>

\* main.py:30-31: except Exception as e: conn.sendall(json.dumps({'error': str(e)}))
HExcept ==
    /\ hPc = "except"
    /\ hSendCalls' = hSendCalls + 1
    /\ \E ok \in BOOLEAN, n \in 1..MaxReplyLen :
          IF ok
          THEN /\ hReplies' = Append(hReplies,
                                     JsonReply("error", StrOfException(hExc), n))
               /\ UNCHANGED hRaised
          ELSE hRaised' = TRUE /\ UNCHANGED hReplies
    /\ hPc' = "close"
    /\ hEvents' = Append(hEvents, "send")
    /\ UNCHANGED <<hAddr, hRequest, hCfgHasMax, hMax, hPayload, hData, hExc, hSvcCalls,
                   hRecvs, hCloses, hResult, searchVars, appVars, pureVars,
                   extraVars>>

\* main.py:32-33: finally: conn.close()
HClose ==
    /\ hPc = "close"
    /\ hCloses' = hCloses + 1
    /\ hPc' = IF hRaised THEN "crashed" ELSE "done"
    /\ hEvents' = Append(hEvents, "close")
    /\ UNCHANGED <<hAddr, hRequest, hCfgHasMax, hMax, hPayload, hData, hExc, hRaised, hSvcCalls,
                   hSendCalls, hReplies, hRecvs, hResult, searchVars, appVars, pureVars,
                   extraVars>>

HandlerNext ==
    \/ HConfig \/ HRecv \/ HProtect \/ HDecode \/ HDispatch
    \/ HService \/ HSend \/ HExcept \/ HClose

SpecHandler == HandlerInit /\ [][HandlerNext]_vars

HandlerEnded == hPc \in {"done", "crashed"}

\* C2: every execution of client_handler, on every path, sends exactly one reply.
C2_ExactlyOneReply == HandlerEnded => Len(hReplies) = 1

\* C3: every execution of client_handler closes its connection exactly once, on
\* every path, the one where reading max_payload_size fails included.
C3_ClosedExactlyOnce == HandlerEnded => hCloses = 1

\* recv returned the client's bytes, or as many of them as it was asked for.
ReceivedSome == hData.kind # ""

\* C12: for a payload longer than max_payload_size bytes, client_handler replies with
\* the payload-too-large error, and json.loads is never given a cut payload: the
\* exception the handler ends with is the guard's BufferError.
C12_OversizedPayloadRejected ==
    (HandlerEnded /\ hCfgHasMax /\ ReceivedSome /\ hMax > 0 /\ hPayload.len > hMax) =>
        /\ hExc = "BufferError"
        /\ \A i \in 1..Len(hReplies) :
               hReplies[i].message = StrOfException("BufferError")

\* The maximum the guard enforces for a configured max_payload_size.
EnforcedMax(max_payload_size) ==
    IF max_payload_size <= 0 THEN DefaultMaxPayload ELSE max_payload_size

\* C15: every reply client_handler sends is at most max_payload_size bytes long.
C15_RepliesWithinMaxPayload ==
    \A i \in 1..Len(hReplies) : hReplies[i].len <= EnforcedMax(hMax)

\* The four failures of a request and the text the reply is to contain for each.
RequestFailure ==
    IF hExc = "JSONDecodeError" THEN "Invalid JSON format"
    ELSE IF hExc = "KeyError" THEN "Missing key"
    ELSE IF hExc = "ServiceError" THEN StrOfException("ServiceError")
    ELSE IF hExc = "" /\ hData.kind = "other_action" THEN "Invalid action"
    ELSE ""

\* C20: for a payload that is not JSON, a create_log request without query or algo, an
\* unknown action and a service that raises, the reply is plain text framed as
\* 'ERROR: <message>', with the message of that failure.
C20_ErrorReplyFraming ==
    (HandlerEnded /\ RequestFailure # "") =>
        \A i \in 1..Len(hReplies) :
            /\ hReplies[i].framing = "ERROR: text"
            /\ hReplies[i].message = RequestFailure

\* C21: for a create_log request, the reply is plain text: a first line that is
\* 'STRING EXISTS', 'STRING NOT_FOUND' or 'ERROR: <message>' by the status of the
\* service result, followed by the DEBUG block.
C21_ResultReplyIsText ==
    (HandlerEnded /\ hResult # "" /\ hExc = "") =>
        /\ Len(hReplies) = 1
        /\ hReplies[1].kind = "result"
        /\ hReplies[1].status = hResult
        /\ hReplies[1].framing = "status line, then DEBUG block"

\* The place of each event in the connection's state machine.
EventRank(e) ==
    IF e = "read" THEN 1
    ELSE IF e = "decode" THEN 2
    ELSE IF e = "dispatch" THEN 3
    ELSE IF e = "send" THEN 4
    ELSE 5

\* C29: on every connection client_handler reads exactly once, at most
\* max_payload_size bytes, and its events come in the order read, decode, dispatch,
\* send, close: nothing is read after a send, and close is the last event.
C29_OneReadThenOrderedEvents ==
    HandlerEnded =>
        /\ hRecvs = 1
        /\ ReceivedSome => hData.len <= hMax
        /\ \A i, j \in 1..Len(hEvents) :
               i < j => EventRank(hEvents[i]) <= EventRank(hEvents[j])
        /\ hEvents # <<>> /\ hEvents[Len(hEvents)] = "close"
        /\ Len(SelectSeq(hEvents, LAMBDA e : e = "close")) = 1

\* C33: client_handler invokes app_service.create_log exactly once, with requesting_ip
\* the peer's host and with the request's query and algo, if and only if the payload it
\* received decodes to action create_log with both query and algo present; it invokes
\* app_service.read_logs exactly once if and only if the action is read_logs; for any
\* other payload it invokes no service operation.
C33_ServiceCalledAsRequested ==
    HandlerEnded =>
        hSvcCalls =
            IF hData.kind = "create_log"
            THEN <<[op |-> "create_log", requesting_ip |-> hAddr,
                    query_string |-> hRequest.query, algo_name |-> hRequest.algo]>>
            ELSE IF hData.kind = "read_logs"
            THEN <<[op |-> "read_logs", requesting_ip |-> "", query_string |-> <<>>,
                    algo_name |-> ""]>>
            ELSE <<>>

\* A create_log request from the second peer has reached the service.
C33_Witness ==
    /\ HandlerEnded /\ hData.kind = "create_log" /\ hAddr = "192.0.2.7"
    /\ Len(hSvcCalls) = 1 /\ hSvcCalls[1].op = "create_log"
    /\ hSvcCalls[1].requesting_ip = "192.0.2.7" /\ hSvcCalls[1].query_string = WordB
    /\ hSvcCalls[1].algo_name = "binary"

\* ------------------------------------------ StorageRepository (CorpusStore)
\* SearchIndex.build: the index representation of each mode; an unknown mode name
\* falls back to the linear one.
EffectiveMode(mode) == IF mode \in {"naive", "set", "binary"} THEN mode ELSE "naive"

BuildIndex(mode, snapshot) ==
    LET m == EffectiveMode(mode)
    IN [built |-> TRUE,
        mode |-> m,
        repr |-> IF m = "set" THEN Range(snapshot.lines)
                 ELSE IF m = "binary" THEN Sorted(snapshot.lines)
                 ELSE snapshot.lines,
        ver |-> snapshot.ver]

\* SearchIndex.query, by the mode the index was built for.
QueryIndex(idx, target) ==
    IF idx.mode = "set" THEN PyBool(target \in idx.repr)
    ELSE IF idx.mode = "binary" THEN BinaryLoop(idx.repr, target, 0, Len(idx.repr) - 1)
    ELSE PyBool(\E i \in 1..Len(idx.repr) : idx.repr[i] = target)

\* A load_file that drops what it held when the file cannot be read.
LoadFailedClearing(store) == NoData

\* load_file when the file is missing or unreadable: nothing is stored.
LoadFailed(store) == store

\* load_file when the file is read: its lines are published as the current data.
LoadSucceeded(store, file) == [loaded |-> TRUE, lines |-> file.lines, ver |-> file.ver]

\* A prepare that publishes the index before its last line is in.
PreparedHalfBuilt(idx, mode, snapshot) ==
    BuildIndex(mode, [snapshot EXCEPT !.lines = SubSeq(@, 1, Len(@) - 1)])

\* A prepare that takes no index as compatible.
ReusableNever(idx, mode, snapshot) == FALSE

\* A compatible index exists: one built for this mode from the current data.
Reusable(idx, mode, snapshot) ==
    idx.built /\ idx.mode = EffectiveMode(mode) /\ idx.ver = snapshot.ver

\* prepare(mode): reuse the index built for this mode from the current data, or
\* build a new one and publish it in one assignment.
Prepared(idx, mode, snapshot) ==
    IF Reusable(idx, mode, snapshot)
    THEN idx
    ELSE BuildIndex(mode, snapshot)

\* ------------------------------------------------------- LogRepository
\* open(filepath, 'w'): the file is emptied before anything is written.
Truncated == [valid |-> FALSE, entries |-> <<>>]

\* A dump that writes an empty list.
DumpedNothing(logs) == [valid |-> TRUE, entries |-> <<>>]

\* json.dump(logs, f): the whole list.
Dumped(logs) == [valid |-> TRUE, entries |-> logs]

\* An append that forgets the entries read from the file.
AppendedAlone(logs, entry) == <<entry>>

\* logs.append(log.__dict__)
Appended(logs, entry) == Append(logs, entry)

\* uuid.uuid4(): a value not handed out before.
FreshId(n) == n + 1

\* ------------------------------------------------------------------- Log
\* models.py:23-31: Log(id, query, requesting_ip); the lock is an attribute too.
NewLog(id, query, requesting_ip) ==
    [id |-> id, query |-> set_query(query), requesting_ip |-> requesting_ip,
     execution_time |-> "None", timestamp |-> "None", status |-> "None",
     _lock |-> "lock"]

\* A create that sets nothing.
create_nothing(log, found, exec_time, now) == log

\* models.py:66-69: Log.create(found, exec_time), the three assignments made under
\* the lock; now is what datetime.now() returns.
create(log, found, exec_time, now) ==
    [log EXCEPT !.status = found, !.execution_time = exec_time, !.timestamp = now]

\* repositories.py:15, 17: log.__dict__, every attribute of the Log, as
\* json.dump(..., default=str) writes it: str(value) for the datetime and the lock.
LogDict(log) ==
    [log EXCEPT !.timestamp = IF @ = "None" THEN @ ELSE "str(datetime)",
                !._lock = "<unlocked _thread.lock object>"]

\* The peer address of the connection a thread serves (addr[0], main.py:20).
RequestingIp(t) == t

\* ------------------------------------------------ AppService.create_log
ErrorResult(c, msg) == [c EXCEPT !.status = "error", !.error = msg, !.id = 0]

\* An error return that comes after the entry was written.
ReturnedAfterAppend(store) == [store EXCEPT !.entries = Append(@, LogDict(NoLog))]

\* app.py:114-162, 191-201: the returns with status 'error' of the load, the prepare
\* and the search come before log_repo.create_log (app.py:172): the log store is as
\* it was.
ReturnedEarly(store) == store

\* A test that forgets reread_on_query.
NeedsLoadWhenEmpty(rereadOnQuery, store) == ~store.loaded

\* app.py:108: whether the call loads the corpus file.
NeedsLoad(rereadOnQuery, store) == rereadOnQuery \/ ~store.loaded

\* No other call is in progress.
Solo(t) == \A u \in Threads \ {t} : pc[u] \in {"idle", "done"}

\* A thread (main.py:60) enters create_log with the request's query and algo, and
\* executes app.py:108, the test whether to load the file.
Start(t) ==
    /\ pc[t] \in {"idle", "done"}
    /\ serial => Solo(t)
    /\ nCalls < MaxCalls
    /\ nCalls' = nCalls + 1
    /\ \E q \in QueryStrings, a \in ModeNames :
          call' = [call EXCEPT ![t] = [NoCall EXCEPT !.query = q, !.algo = a]]
    /\ hist' = [hist EXCEPT ![t] = [NoHist EXCEPT !.loadedAtStart = data.loaded,
                                                  !.verAtStart = corpusFile.ver,
                                                  !.dataAtStart = data.lines]]
    /\ pc' = [pc EXCEPT ![t] = IF NeedsLoad(reread, data) THEN "load_file" ELSE "prepare"]
    /\ UNCHANGED <<corpusFile, reread, data, index, logFile, nextId, serial, versions, nAppends, faults,
                   searchVars, handlerVars, pureVars, extraVars>>

\* What a dependency of create_log may do besides returning: raise one of excs.
Raises(excs) == IF faults THEN {""} \cup excs ELSE {""}

\* An exception that leaves create_log.
Propagated(c, msg) == [call |-> c, pc |-> "raised"]

\* app.py:191-201: except Exception as e: the result carries str(e).
OuterExcept(c, msg) == [call |-> ErrorResult(c, msg), pc |-> "done"]

\* app.py:109-122.  Building error_msg evaluates MAX_ROWS, a name defined nowhere:
\* NameError, caught at app.py:191, whose result carries str(e).
LoadFile(t) ==
    /\ pc[t] = "load_file"
    /\ \E exc \in Raises({"OSError"}) :
          IF exc # ""
          THEN /\ hist' = [hist EXCEPT ![t].loads = @ + 1, ![t].fileAtLoad = corpusFile,
                                       ![t].fault = exc]
               /\ call' = [call EXCEPT ![t] = OuterExcept(@, exc).call]
               /\ pc' = [pc EXCEPT ![t] = OuterExcept(call[t], exc).pc]
               /\ UNCHANGED data
          ELSE /\ hist' = [hist EXCEPT ![t].loads = @ + 1, ![t].fileAtLoad = corpusFile]
               /\ IF corpusFile.exists
                  THEN /\ data' = LoadSucceeded(data, corpusFile)
                       /\ pc' = [pc EXCEPT ![t] = "prepare"]
                       /\ UNCHANGED call
                  ELSE /\ data' = LoadFailed(data)
                       /\ call' = [call EXCEPT ![t] =
                              OuterExcept(@, "name 'MAX_ROWS' is not defined").call]
                       /\ pc' = [pc EXCEPT ![t] =
                              OuterExcept(call[t], "name 'MAX_ROWS' is not defined").pc]
    /\ logFile' = IF call'[t].status = "error" THEN ReturnedEarly(logFile) ELSE logFile
    /\ UNCHANGED <<corpusFile, reread, index, nextId, nCalls, serial, versions,
                   nAppends, faults, searchVars, handlerVars, pureVars, extraVars>>

\* app.py:124-148: the test of data, then prepare(mode=algo_name), whose ValueError
\* is caught at app.py:138 and whose other exceptions at app.py:191.
Prepare(t) ==
    /\ pc[t] = "prepare"
    /\ IF ~data.loaded
       THEN /\ call' = [call EXCEPT ![t] =
                           ErrorResult(@, "No data loaded in storage repository")]
            /\ pc' = [pc EXCEPT ![t] = "done"]
            /\ UNCHANGED <<index, hist>>
       ELSE \E exc \in Raises({"ValueError", "RuntimeError"}) :
               IF exc = "ValueError"
               THEN /\ call' = [call EXCEPT ![t] =
                                   ErrorResult(@, "Failed to prepare storage: ValueError")]
                    /\ pc' = [pc EXCEPT ![t] = "done"]
                    /\ hist' = [hist EXCEPT ![t].fault = exc]
                    /\ UNCHANGED index
               ELSE IF exc # ""
               THEN /\ call' = [call EXCEPT ![t] = OuterExcept(@, exc).call]
                    /\ pc' = [pc EXCEPT ![t] = OuterExcept(call[t], exc).pc]
                    /\ hist' = [hist EXCEPT ![t].fault = exc]
                    /\ UNCHANGED index
               ELSE /\ index' = Prepared(index, call[t].algo, data)
                    /\ hist' = [hist EXCEPT ![t].rebuilt =
                                    ~Reusable(index, call[t].algo, data)]
                    /\ pc' = [pc EXCEPT ![t] = "search"]
                    /\ UNCHANGED call
    /\ logFile' = IF call'[t].status = "error" THEN ReturnedEarly(logFile) ELSE logFile
    /\ UNCHANGED <<corpusFile, reread, data, nextId, nCalls, serial, versions,
                   nAppends, faults, searchVars, handlerVars, pureVars, extraVars>>

\* app.py:150-171: search(query_string), whose exceptions are caught at app.py:152;
\* then uuid4, Log(...) and log.create, whose exceptions are caught at app.py:191.
Search(t) ==
    /\ pc[t] = "search"
    /\ IF ~index.built
       THEN /\ call' = [call EXCEPT ![t] =
                           ErrorResult(@, "Search operation failed: not prepared")]
            /\ pc' = [pc EXCEPT ![t] = "done"]
            /\ UNCHANGED <<nextId, hist>>
       ELSE \E exc \in Raises({"SearchError", "LogError"}) :
               IF exc = "SearchError"
               THEN /\ call' = [call EXCEPT ![t] =
                                   ErrorResult(@, "Search operation failed: SearchError")]
                    /\ pc' = [pc EXCEPT ![t] = "done"]
                    /\ hist' = [hist EXCEPT ![t].fault = exc]
                    /\ UNCHANGED nextId
               ELSE IF exc # ""
               THEN /\ nextId' = FreshId(nextId)
                    /\ call' = [call EXCEPT ![t] =
                           OuterExcept([call[t] EXCEPT
                                           !.found = QueryIndex(index, call[t].query)],
                                       exc).call]
                    /\ pc' = [pc EXCEPT ![t] = OuterExcept(call[t], exc).pc]
                    /\ hist' = [hist EXCEPT ![t].used = index, ![t].fault = exc]
               ELSE /\ nextId' = FreshId(nextId)
                    /\ call' = [call EXCEPT
                           ![t].found = QueryIndex(index, call[t].query),
                           ![t].id = FreshId(nextId),
                           ![t].log = create(NewLog(FreshId(nextId), call[t].query,
                                                    RequestingIp(t)),
                                             QueryIndex(index, call[t].query),
                                             "float", "datetime")]
                    /\ hist' = [hist EXCEPT ![t].used = index, ![t].creates = @ + 1]
                    /\ pc' = [pc EXCEPT ![t] = "repo_read"]
    /\ logFile' = IF call'[t].status = "error" THEN ReturnedEarly(logFile) ELSE logFile
    /\ UNCHANGED <<corpusFile, reread, data, index, nCalls, serial, versions,
                   nAppends, faults, searchVars, handlerVars, pureVars, extraVars>>

\* app.py:172 -> repositories.py:14, 20-21: logs = self.read_logs().  A file that
\* holds no JSON document raises JSONDecodeError, caught at app.py:191.
RepoRead(t) ==
    /\ pc[t] = "repo_read"
    /\ \E exc \in Raises({"OSError"}) :
          IF exc # "" \/ ~logFile.valid
          THEN /\ call' = [call EXCEPT ![t] =
                      OuterExcept(@, IF exc # "" THEN exc ELSE "JSONDecodeError").call]
               /\ pc' = [pc EXCEPT ![t] =
                      OuterExcept(call[t], IF exc # "" THEN exc ELSE "JSONDecodeError").pc]
               /\ hist' = [hist EXCEPT ![t].fault =
                      IF exc # "" THEN exc ELSE "JSONDecodeError"]
          ELSE /\ call' = [call EXCEPT ![t].logs = logFile.entries]
               /\ pc' = [pc EXCEPT ![t] = "repo_open"]
               /\ UNCHANGED hist
    /\ UNCHANGED <<corpusFile, reread, data, index, logFile, nextId, nCalls, serial,
                   versions, nAppends, faults, searchVars, handlerVars, pureVars,
                   extraVars>>

\* repositories.py:15-16: logs.append(log.__dict__); open(self.filepath, 'w')
RepoOpen(t) ==
    /\ pc[t] = "repo_open"
    /\ \E exc \in Raises({"OSError"}) :
          IF exc # ""
          THEN /\ call' = [call EXCEPT ![t] = OuterExcept(@, exc).call]
               /\ pc' = [pc EXCEPT ![t] = OuterExcept(call[t], exc).pc]
               /\ hist' = [hist EXCEPT ![t].fault = exc]
               /\ UNCHANGED logFile
          ELSE /\ call' = [call EXCEPT ![t].logs = Appended(@, LogDict(call[t].log))]
               /\ logFile' = Truncated
               /\ pc' = [pc EXCEPT ![t] = "repo_dump"]
               /\ UNCHANGED hist
    /\ UNCHANGED <<corpusFile, reread, data, index, nextId, nCalls, serial, versions,
                   nAppends, faults, searchVars, handlerVars, pureVars, extraVars>>

\* repositories.py:17: json.dump(logs, f), then app.py:175-189: the result.  A dump
\* that raises leaves the file as open(..., 'w') made it.
RepoDump(t) ==
    /\ pc[t] = "repo_dump"
    /\ \E exc \in Raises({"OSError"}) :
          IF exc # ""
          THEN /\ call' = [call EXCEPT ![t] = OuterExcept(@, exc).call]
               /\ pc' = [pc EXCEPT ![t] = OuterExcept(call[t], exc).pc]
               /\ hist' = [hist EXCEPT ![t].fault = exc]
               /\ UNCHANGED <<logFile, nAppends>>
          ELSE /\ logFile' = Dumped(call[t].logs)
               /\ call' = [call EXCEPT ![t].status =
                              IF call[t].found = "True" THEN "STRING_EXISTS"
                              ELSE "STRING_NOT_FOUND"]
               /\ nAppends' = nAppends + 1
               /\ pc' = [pc EXCEPT ![t] = "done"]
               /\ hist' = [hist EXCEPT ![t].persisted = @ + 1]
    /\ UNCHANGED <<corpusFile, reread, data, index, nextId, nCalls, serial, versions,
                   faults, searchVars, handlerVars, pureVars, extraVars>>

\* Somebody edits, deletes or restores the corpus file.
EditCorpus ==
    /\ corpusFile.ver < MaxEdits
    /\ \E f \in {Missing(corpusFile.ver + 1)}
              \cup {Present(ls, corpusFile.ver + 1) : ls \in CorpusContents} :
          /\ <<f.exists, f.lines>> # <<corpusFile.exists, corpusFile.lines>>
          /\ corpusFile' = f
          /\ versions' = Append(versions, f.lines)
    /\ UNCHANGED <<reread, data, index, logFile, nextId, nCalls, pc, call, hist, serial,
                   nAppends, faults,
                   searchVars, handlerVars, pureVars, extraVars>>

AppInit ==
    /\ corpusFile \in {Missing(0)} \cup {Present(ls, 0) : ls \in CorpusContents}
    /\ reread \in BOOLEAN
    /\ data = NoData
    /\ index = NoIndex
    /\ logFile = Dumped(<<>>)
    /\ nextId = 0 /\ nCalls = 0 /\ nAppends = 0
    /\ versions = <<corpusFile.lines>>
    /\ pc = [t \in Threads |-> "idle"]
    /\ call = [t \in Threads |-> NoCall]
    /\ hist = [t \in Threads |-> NoHist]
    /\ SearchOff
    /\ HandlerOff
    /\ PureOff
    /\ ExtraOff

Step(t) ==
    \/ Start(t) \/ LoadFile(t) \/ Prepare(t) \/ Search(t)
    \/ RepoRead(t) \/ RepoOpen(t) \/ RepoDump(t)

Next == (\E t \in Threads : Step(t)) \/ EditCorpus

\* Threads run concurrently, one per connection (main.py:57-60).
ConcurrentInit == AppInit /\ serial = FALSE /\ faults = FALSE

Spec == ConcurrentInit /\ [][Next]_vars

\* The calls are made one after another.
SerialInit == AppInit /\ serial = TRUE /\ faults = FALSE

SpecSeq == SerialInit /\ [][Next]_vars

\* The calls are made one after another, and what create_log calls may raise.
FaultyInit == AppInit /\ serial = TRUE /\ faults = TRUE

SpecFaulty == FaultyInit /\ [][Next]_vars

\* The calls are made one after another, beside one read_logs of the log file.
ReaderInit == AppInit /\ serial = TRUE /\ faults = FALSE

\* The create_log call that has opened the log file for writing and not yet written.
Writing(t) == pc[t] = "repo_dump"

\* The lists the log file held before and after the write in progress, or the list
\* it holds when none is.
ListsAround ==
    IF \E t \in Threads : Writing(t)
    THEN LET t == CHOOSE u \in Threads : Writing(u)
         IN {SubSeq(call[t].logs, 1, Len(call[t].logs) - 1), call[t].logs}
    ELSE {logFile.entries}

\* repositories.py:19-21: open(self.filepath, 'r'), json.load(f).  An empty file is
\* no JSON document: JSONDecodeError.
ReadLogs ==
    /\ rPc = "idle"
    /\ rPc' = "returned"
    /\ rObs' = IF logFile.valid
               THEN [raised |-> "", entries |-> logFile.entries,
                     allowed |-> ListsAround]
               ELSE [raised |-> "JSONDecodeError", entries |-> <<>>,
                     allowed |-> ListsAround]
    /\ UNCHANGED <<appVars, searchVars, handlerVars, pureVars, parallelVars,
                   createVars, listenerVars, moreVars>>

ReaderNext == Next \/ ReadLogs

SpecReader == ReaderInit /\ [][ReaderNext]_vars

\* C25: a read_logs that runs beside a create_log on the same log file returns the
\* complete list from before that write or the complete list after it; it never fails
\* with a decode error.
C25_ReaderSeesCompleteList ==
    rPc = "returned" => (rObs.raised = "" /\ rObs.entries \in rObs.allowed)

\* ------------------- specification: Log.create from several threads
NumCreators == 3

Creators == 1..NumCreators

\* Each thread calls create with its own found and its own exec_time.
CreateInit ==
    /\ cPc = [w \in Creators |-> "call"]
    /\ \E fs \in [Creators -> {PyBool(b) : b \in BOOLEAN}] :
          cArgs = [w \in Creators |-> [found |-> fs[w], exec_time |-> w]]
    /\ cStamp = [w \in Creators |-> 0]
    /\ cNow = 0 /\ cLock = 0
    /\ cLog = NoFields
    /\ SearchOff /\ HandlerOff /\ AppOff /\ PureOff
    /\ ReaderOff /\ ParallelOff /\ ListenerOff /\ MoreOff

\* A lock that anybody may take at any time.
FreeAlways(lock) == TRUE

\* threading.Lock: it can be acquired when no thread holds it.
Free(lock) == lock = 0

\* models.py:66: with self._lock:
Acquire(w) ==
    /\ cPc[w] = "call"
    /\ Free(cLock)
    /\ cLock' = w
    /\ cPc' = [cPc EXCEPT ![w] = "status"]
    /\ UNCHANGED <<cArgs, cStamp, cNow, cLog>>

\* models.py:67: self.status = found
SetStatus(w) ==
    /\ cPc[w] = "status"
    /\ cLog' = [cLog EXCEPT !.status = cArgs[w].found]
    /\ cPc' = [cPc EXCEPT ![w] = "execution_time"]
    /\ UNCHANGED <<cArgs, cStamp, cNow, cLock>>

\* models.py:68: self.execution_time = exec_time
SetExecutionTime(w) ==
    /\ cPc[w] = "execution_time"
    /\ cLog' = [cLog EXCEPT !.execution_time = cArgs[w].exec_time]
    /\ cPc' = [cPc EXCEPT ![w] = "timestamp"]
    /\ UNCHANGED <<cArgs, cStamp, cNow, cLock>>

\* models.py:69: self.timestamp = datetime.now()
SetTimestamp(w) ==
    /\ cPc[w] = "timestamp"
    /\ cNow' = cNow + 1
    /\ cStamp' = [cStamp EXCEPT ![w] = cNow + 1]
    /\ cLog' = [cLog EXCEPT !.timestamp = cNow + 1]
    /\ cPc' = [cPc EXCEPT ![w] = "release"]
    /\ UNCHANGED <<cArgs, cLock>>

\* models.py:66: the end of the with block releases the lock.
Release(w) ==
    /\ cPc[w] = "release"
    /\ cLock' = 0
    /\ cPc' = [cPc EXCEPT ![w] = "done"]
    /\ UNCHANGED <<cArgs, cStamp, cNow, cLog>>

CreateStep(w) ==
    /\ \/ Acquire(w) \/ SetStatus(w) \/ SetExecutionTime(w) \/ SetTimestamp(w)
       \/ Release(w)
    /\ UNCHANGED <<searchVars, handlerVars, appVars, pureVars, readerVars,
                   parallelVars, listenerVars, moreVars>>

CreateNext == \E w \in Creators : CreateStep(w)

SpecCreate == CreateInit /\ [][CreateNext]_vars

AllCreated == \A w \in Creators : cPc[w] = "done"

\* C27: when several threads call Log.create on the same Log concurrently, after all
\* calls have finished status, execution_time and timestamp are set and all three
\* come from one and the same call.
C27_FieldsFromOneCall ==
    AllCreated =>
        \E w \in Creators :
            cLog = [status |-> cArgs[w].found, execution_time |-> cArgs[w].exec_time,
                    timestamp |-> cStamp[w]]

\* All calls have finished, and the one that came last was not the first thread's.
C27_Witness ==
    AllCreated /\ cLog.execution_time = 2 /\ cLog.timestamp = cNow /\ cNow >= 2


\* ------------- specification: Log.to_dict beside Log.create on the same Log
\* The threads of CreateInit, and one more thread about to evaluate the dictionary
\* display of to_dict; id, query and requesting_ip are not written by create.
ToDictInit ==
    /\ cPc = [w \in Creators |-> "call"]
    /\ \E fs \in [Creators -> {PyBool(b) : b \in BOOLEAN}] :
          cArgs = [w \in Creators |-> [found |-> fs[w], exec_time |-> w]]
    /\ cStamp = [w \in Creators |-> 0]
    /\ cNow = 0 /\ cLock = 0
    /\ cLog = NoFields
    /\ dPc = "execution_time" /\ dOut = NoFields
    /\ SearchOff /\ HandlerOff /\ AppOff /\ PureOff
    /\ ReaderOff /\ ParallelOff /\ ListenerOff
    /\ StartupOff /\ BmOff /\ RepoOff

\* models.py:78-86: to_dict has no `with self._lock`: each read below is a step of
\* its own, taken whatever the state of the lock.

\* models.py:82: "execution_time": self.execution_time
ReadExecutionTime ==
    /\ dPc = "execution_time"
    /\ dOut' = [dOut EXCEPT !.execution_time = cLog.execution_time]
    /\ dPc' = "timestamp_test"

\* models.py:84: if self.timestamp else None
TestTimestamp ==
    /\ dPc = "timestamp_test"
    /\ IF cLog.timestamp = 0
       THEN dOut' = [dOut EXCEPT !.timestamp = 0] /\ dPc' = "status"
       ELSE dPc' = "timestamp" /\ UNCHANGED dOut

\* models.py:83: "timestamp": self.timestamp.isoformat()
ReadTimestamp ==
    /\ dPc = "timestamp"
    /\ dOut' = [dOut EXCEPT !.timestamp = cLog.timestamp]
    /\ dPc' = "status"

\* models.py:85: "status": self.status, and the return of the dictionary
ReadStatus ==
    /\ dPc = "status"
    /\ dOut' = [dOut EXCEPT !.status = cLog.status]
    /\ dPc' = "returned"

to_dict ==
    /\ ReadExecutionTime \/ TestTimestamp \/ ReadTimestamp \/ ReadStatus
    /\ UNCHANGED <<searchVars, handlerVars, appVars, pureVars, readerVars,
                   parallelVars, createVars, listenerVars, startupVars, bmVars,
                   repoVars>>

ToDictNext == CreateNext \/ to_dict

SpecToDict == ToDictInit /\ [][ToDictNext]_vars

\* C39: Log.to_dict called by one thread while another thread runs Log.create on the
\* same Log never returns a half-completed entry: the returned status, execution_time
\* and timestamp are either all None or all set.
C39_ToDictNeverHalfCompleted ==
    dPc = "returned" =>
        \/ dOut = NoFields
        \/ dOut.status # "None" /\ dOut.execution_time # 0 /\ dOut.timestamp # 0

\* --------------------------- specification: one create_logs_parallel call
MaxRequests == 2

\* A query longer than Log stores.
LongQuery == Repeat(ChA, QueryByteLimit + 1)

ParallelQueries == {WordA, LongQuery}
ParallelIps == {1, 2}

Requests ==
    [requesting_ip : ParallelIps, query_string : ParallelQueries, algo_name : {"naive"}]

RECURSIVE RequestListsUpTo(_)
RequestListsUpTo(n) ==
    IF n = 0 THEN {<<>>}
    ELSE LET shorter == RequestListsUpTo(n - 1)
         IN shorter \cup {Append(rs, r) : rs \in {x \in shorter : Len(x) = n - 1},
                                          r \in Requests}

NoRecord == [id |-> 0, query |-> <<>>, requesting_ip |-> 0, status |-> ""]

\* Log(id, query, requesting_ip).query for each query of a request (models.py:31).
StoredQuery == [q \in ParallelQueries |-> set_query(q)]

\* app.py:182-189: the record of a search that ran; its query is log.query, the
\* query as the Log stored it.
FoundRecord(req, id, status) ==
    [id |-> id, query |-> StoredQuery[req.query_string],
     requesting_ip |-> req.requesting_ip, status |-> status]

\* app.py:114-122, 126-134, 140-148, 154-162, 193-201: the record of a failed call.
ErrorRecord(req) ==
    [id |-> 0, query |-> req.query_string, requesting_ip |-> req.requesting_ip,
     status |-> "error"]

\* What self.create_log gives for the i-th request: one of its records, or, as in
\* test_app.py:162-176, an exception.
CreateLogOutcomes(req, i) ==
    {[raised |-> "", value |-> FoundRecord(req, i, st)] :
         st \in {"STRING_EXISTS", "STRING_NOT_FOUND"}}
    \cup {[raised |-> "", value |-> ErrorRecord(req)],
          [raised |-> "Exception", value |-> NoRecord]}

\* An except clause whose record does not name the request.
FailureRecordAnonymous(req, exc) == [NoRecord EXCEPT !.status = "error"]

\* app.py:242-253: except Exception as e: the record built from futures[future].
FailureRecord(req, exc) ==
    [id |-> 0, query |-> req.query_string, requesting_ip |-> req.requesting_ip,
     status |-> "error"]

ParallelInit ==
    /\ pPc = "submit"
    /\ pReqs \in RequestListsUpTo(MaxRequests)
    /\ pFut = <<>> /\ pOut = <<>> /\ pOrder = <<>> /\ pResults = <<>>
    /\ SearchOff /\ HandlerOff /\ AppOff /\ PureOff
    /\ ReaderOff /\ CreateOff /\ ListenerOff /\ MoreOff

\* app.py:228-236: every request is submitted to the pool.
Submit ==
    /\ pPc = "submit"
    /\ pFut' = [i \in 1..Len(pReqs) |-> "queued"]
    /\ pOut' = [i \in 1..Len(pReqs) |-> [raised |-> "", value |-> NoRecord]]
    /\ pPc' = "collect"
    /\ UNCHANGED <<pReqs, pOrder, pResults>>

\* A worker of the pool runs self.create_log for one request.
RunCreateLog(i) ==
    /\ pPc = "collect"
    /\ pFut[i] = "queued"
    /\ pFut' = [pFut EXCEPT ![i] = "finished"]
    /\ \E o \in CreateLogOutcomes(pReqs[i], i) : pOut' = [pOut EXCEPT ![i] = o]
    /\ UNCHANGED <<pPc, pReqs, pOrder, pResults>>

\* app.py:238-253: as_completed yields a finished future; its result, or the record
\* for its exception, is appended.
Collect(i) ==
    /\ pPc = "collect"
    /\ pFut[i] = "finished"
    /\ \A k \in 1..Len(pOrder) : pOrder[k] # i
    /\ pOrder' = Append(pOrder, i)
    /\ pResults' = Append(pResults,
                          IF pOut[i].raised = "" THEN pOut[i].value
                          ELSE FailureRecord(pReqs[i], pOut[i].raised))
    /\ UNCHANGED <<pPc, pReqs, pFut, pOut>>

\* app.py:255: return results, once as_completed is exhausted.
ReturnResults ==
    /\ pPc = "collect"
    /\ Len(pOrder) = Len(pReqs)
    /\ pPc' = "returned"
    /\ UNCHANGED <<pReqs, pFut, pOut, pOrder, pResults>>

ParallelNext ==
    /\ \/ Submit
       \/ \E i \in 1..Len(pReqs) : RunCreateLog(i) \/ Collect(i)
       \/ ReturnResults
    /\ UNCHANGED <<searchVars, handlerVars, appVars, pureVars, readerVars,
                   createVars, listenerVars, moreVars>>

SpecParallel == ParallelInit /\ [][ParallelNext]_vars

\* The one-to-one assignments of results to inputs.
Matchings(n) == {f \in [1..n -> 1..n] : \A a, b \in 1..n : f[a] = f[b] => a = b}

\* Processing of the i-th request failed.
ItemFailed(i) == pOut[i].raised # "" \/ pOut[i].value.status = "error"

\* Each failed item has a status 'error' result, every other item its own result.
FailuresContained(f) ==
    \A k \in 1..Len(pResults) :
        IF ItemFailed(f[k]) THEN pResults[k].status = "error"
        ELSE pResults[k] = pOut[f[k]].value

\* C24 as stated: create_logs_parallel returns exactly one result per input, with a
\* one-to-one matching of results and inputs by equal query and requester address,
\* whatever the completion order; a failed item yields a status 'error' result and
\* every other item its own result.
C24_OneResultPerInput ==
    pPc = "returned" =>
        /\ Len(pResults) = Len(pReqs)
        /\ \E f \in Matchings(Len(pReqs)) :
               /\ \A k \in 1..Len(pResults) :
                      /\ pResults[k].query = pReqs[f[k]].query_string
                      /\ pResults[k].requesting_ip = pReqs[f[k]].requesting_ip
               /\ FailuresContained(f)

\* C24 as amended: the matching is by requester address and by the query as the
\* result reports it: the input's query in a status 'error' result, the query as Log
\* stores it (cut to 1024 bytes of UTF-8) in a STRING_EXISTS or STRING_NOT_FOUND one.
C24_OneResultPerInputAsStored ==
    pPc = "returned" =>
        /\ Len(pResults) = Len(pReqs)
        /\ \E f \in Matchings(Len(pReqs)) :
               /\ \A k \in 1..Len(pResults) :
                      /\ pResults[k].query =
                             IF pResults[k].status = "error"
                             THEN pReqs[f[k]].query_string
                             ELSE StoredQuery[pReqs[f[k]].query_string]
                      /\ pResults[k].requesting_ip = pReqs[f[k]].requesting_ip
               /\ FailuresContained(f)

\* The second request finished first and raised; the first one, with a long query,
\* was found.
C24_Witness ==
    /\ pPc = "returned" /\ pOrder = <<2, 1>>
    /\ pOut[2].raised = "Exception" /\ pResults[1].status = "error"
    /\ pReqs[1].query_string = LongQuery /\ pResults[2].status = "STRING_EXISTS"


\* ------------------------------ specification: the listener's accept loop
MaxConns == 4

ListenerInit ==
    /\ lPc = "accept" /\ lPending = 0 /\ lAccepted = 0 /\ lThreads = <<>>
    /\ SearchOff /\ HandlerOff /\ AppOff /\ PureOff
    /\ ReaderOff /\ ParallelOff /\ CreateOff /\ MoreOff

\* A client connects; the connection waits in the listening socket's queue.
Connect ==
    /\ lPending + lAccepted < MaxConns
    /\ lPending' = lPending + 1
    /\ UNCHANGED <<lPc, lAccepted, lThreads>>

\* main.py:58: conn, addr = sock.accept().  It returns the next waiting connection,
\* or raises (OSError, or the TLS handshake's error under secure_socket), which
\* nothing in main catches.
Accept ==
    /\ lPc = "accept"
    /\ lPending > 0
    /\ lPending' = lPending - 1
    /\ \E ok \in BOOLEAN :
          IF ok
          THEN lAccepted' = lAccepted + 1 /\ lPc' = "start"
          ELSE lPc' = "crashed" /\ UNCHANGED lAccepted
    /\ UNCHANGED lThreads

\* A listener that serves the connection itself.
StartedNothing(threads, conn) == threads

\* main.py:60: threading.Thread(target=client_handler, args=(conn, ...)).start()
Started(threads, conn) == Append(threads, [conn |-> conn, state |-> "running"])

\* main.py:59-60: print, start the handler thread, and back to the top of the loop.
StartThread ==
    /\ lPc = "start"
    /\ lThreads' = Started(lThreads, lAccepted)
    /\ lPc' = "accept"
    /\ UNCHANGED <<lPending, lAccepted>>

\* A handler thread waits in conn.recv for a client that sends nothing.
HandlerBlocks(k) ==
    /\ lThreads[k].state = "running"
    /\ lThreads' = [lThreads EXCEPT ![k].state = "blocked"]
    /\ UNCHANGED <<lPc, lPending, lAccepted>>

\* A handler thread returns from client_handler.
HandlerFinishes(k) ==
    /\ lThreads[k].state \in {"running", "blocked"}
    /\ lThreads' = [lThreads EXCEPT ![k].state = "finished"]
    /\ UNCHANGED <<lPc, lPending, lAccepted>>

ListenerNext ==
    /\ \/ Connect \/ Accept \/ StartThread
       \/ \E k \in 1..Len(lThreads) : HandlerBlocks(k) \/ HandlerFinishes(k)
    /\ UNCHANGED <<searchVars, handlerVars, appVars, pureVars, readerVars,
                   parallelVars, createVars, moreVars>>

SpecListener == ListenerInit /\ [][ListenerNext]_vars

\* The handler threads started for a connection.
ThreadsOf(conn) == {k \in 1..Len(lThreads) : lThreads[k].conn = conn}

\* C30: the listener starts exactly one handler thread for each accepted connection
\* and returns to accept without waiting for any handler: whatever the handlers
\* started before are doing, the listener at accept takes the next waiting
\* connection, and the listener at start gives it its own thread.
C30_OneThreadPerConnection ==
    /\ lPc = "accept" =>
           /\ \A conn \in 1..lAccepted : Cardinality(ThreadsOf(conn)) = 1
           /\ Len(lThreads) = lAccepted
           /\ lPending > 0 => ENABLED Accept
    /\ lPc = "start" =>
           /\ ThreadsOf(lAccepted) = {}
           /\ ENABLED StartThread

\* The third connection has its handler while the first two handlers are blocked.
C30_Witness ==
    /\ lPc = "accept" /\ Len(lThreads) = 3
    /\ lThreads[1].state = "blocked" /\ lThreads[2].state = "blocked"
    /\ lThreads[3].state = "running"


\* ------------------------- specification: main() from its TLS step onwards
\* A secure_socket that looks for the certificate only.
secure_socket_cert_only(certfile, keyfile, sslFails) ==
    IF ~certfile THEN "FileNotFoundError"
    ELSE IF sslFails THEN "SSLError"
    ELSE ""

\* security.py:34-68: the exception secure_socket raises ("" if it returns the wrapped
\* socket).  certfile and keyfile: whether os.path.exists finds the file; sslFails:
\* load_cert_chain or wrap_socket raises ssl.SSLError.  Every except clause re-raises.
secure_socket(certfile, keyfile, sslFails) ==
    IF ~certfile THEN "FileNotFoundError"
    ELSE IF ~keyfile THEN "FileNotFoundError"
    ELSE IF sslFails THEN "SSLError"
    ELSE ""

\* main has created, bound and put to listen its socket (main.py:48-51).
StartupInit ==
    /\ lPc = "secure" /\ lPending = 0 /\ lAccepted = 0 /\ lThreads = <<>>
    /\ ssl_enabled \in BOOLEAN /\ certExists \in BOOLEAN /\ keyExists \in BOOLEAN
    /\ mExc = ""
    /\ SearchOff /\ HandlerOff /\ AppOff /\ PureOff
    /\ ReaderOff /\ ParallelOff /\ CreateOff
    /\ BmOff /\ DictOff /\ RepoOff

\* main.py:53-55: if ssl_enabled: sock = secure_socket(sock, certfile, keyfile), with
\* no try around it: an exception leaves main, and the process ends.
SecureSocket ==
    /\ lPc = "secure"
    /\ \E sslFails \in BOOLEAN :
          LET exc == IF ssl_enabled THEN secure_socket(certExists, keyExists, sslFails)
                     ELSE ""
          IN /\ mExc' = exc
             /\ lPc' = IF exc = "" THEN "accept" ELSE "terminated"
    /\ UNCHANGED <<lPending, lAccepted, lThreads, ssl_enabled, certExists, keyExists,
                   searchVars, handlerVars, appVars, pureVars, readerVars,
                   parallelVars, createVars, bmVars, dictVars, repoVars>>

StartupNext == SecureSocket \/ ListenerNext

SpecStartup == StartupInit /\ [][StartupNext]_vars

\* C31: when TLS is enabled and the certificate file or the key file is missing,
\* secure_socket raises FileNotFoundError, main does not recover from it, and the
\* server terminates without ever accepting a connection.
C31_MissingTlsMaterialIsFatal ==
    (ssl_enabled /\ (~certExists \/ ~keyExists)) =>
        /\ lPc \in {"secure", "terminated"}
        /\ lPc = "terminated" => mExc = "FileNotFoundError"
        /\ lAccepted = 0 /\ lThreads = <<>>

\* The key file was missing: main has ended, and a client that connected to the
\* listening socket waits unaccepted.
C31_Witness ==
    /\ ssl_enabled /\ certExists /\ ~keyExists
    /\ lPc = "terminated" /\ mExc = "FileNotFoundError"
    /\ lPending > 0 /\ lAccepted = 0

\* ------------------- specification: one LogRepository, calls one at a time
MaxRepoCalls == 3

\* An entry the file held before the repository was constructed.
StoredEntry(id) == LogDict(NewLog(id, WordA, 1))

\* The file at filepath before LogRepository(filepath): missing, empty as
\* tempfile.NamedTemporaryFile leaves it (test_repositories.py:11), or a JSON list.
FilesBefore ==
    {NoFile, [exists |-> TRUE, valid |-> FALSE, entries |-> <<>>]}
    \cup {[exists |-> TRUE, valid |-> TRUE, entries |-> es] :
              es \in {<<>>, <<StoredEntry(101)>>, <<StoredEntry(101), StoredEntry(102)>>}}

RepoInit ==
    /\ repoFile \in FilesBefore
    /\ repoPc = "new"
    /\ repoCalls = <<>>
    /\ SearchOff /\ HandlerOff /\ AppOff /\ PureOff
    /\ ReaderOff /\ ParallelOff /\ CreateOff /\ ListenerOff
    /\ StartupOff /\ BmOff /\ DictOff

\* repositories.py:7-11: LogRepository(filepath) writes [] to a file that is missing
\* and leaves an existing one as it is.
Construct ==
    /\ repoPc = "new"
    /\ repoFile' = IF repoFile.exists THEN repoFile
                   ELSE [exists |-> TRUE, valid |-> TRUE, entries |-> <<>>]
    /\ repoPc' = "ready"
    /\ UNCHANGED repoCalls

\* repositories.py:19-21: open(self.filepath, 'r'), json.load(f).
LogRepository_read_logs(file) ==
    IF ~file.exists THEN [raised |-> "FileNotFoundError", value |-> <<>>]
    ELSE IF ~file.valid THEN [raised |-> "JSONDecodeError", value |-> <<>>]
    ELSE [raised |-> "", value |-> file.entries]

\* A read_logs of the service that lets the repository's exception through.
AppService_read_logs_reraising(outcome) == outcome

\* app.py:209-213: return self.log_repo.read_logs(); except Exception: return []
AppService_read_logs(outcome) ==
    IF outcome.raised # "" THEN [raised |-> "", value |-> <<>>] ELSE outcome

\* One call and what it gave: the exception it raised and the list it returned; for
\* create_log the list the file held before and the entry; for the service's
\* read_logs what the repository did.
CallRecord(op, outcome, before, entry, repo) ==
    [op |-> op, raised |-> outcome.raised, value |-> outcome.value,
     before |-> before, entry |-> entry, repo |-> repo]

\* repositories.py:13-17: logs = self.read_logs(); logs.append(log.__dict__);
\* open(self.filepath, 'w'); json.dump(logs, f, default=str, indent=4)
RepoCreateLog ==
    /\ repoPc = "ready" /\ Len(repoCalls) < MaxRepoCalls
    /\ \E q \in QueryStrings :
          LET log == NewLog(FreshId(Len(repoCalls)), q, 1)
              logs == LogRepository_read_logs(repoFile)
          IN IF logs.raised # ""
             THEN /\ repoCalls' = Append(repoCalls,
                         CallRecord("create_log", logs, <<>>, LogDict(log), logs))
                  /\ UNCHANGED repoFile
             ELSE /\ repoFile' = [exists |-> TRUE, valid |-> TRUE,
                                  entries |-> Appended(logs.value, LogDict(log))]
                  /\ repoCalls' = Append(repoCalls,
                         CallRecord("create_log", [raised |-> "", value |-> <<>>],
                                    logs.value, LogDict(log), logs))
    /\ UNCHANGED repoPc

\* LogRepository.read_logs called on its own.
RepoReadLogs ==
    /\ repoPc = "ready" /\ Len(repoCalls) < MaxRepoCalls
    /\ LET logs == LogRepository_read_logs(repoFile)
       IN repoCalls' = Append(repoCalls,
              CallRecord("read_logs", logs, <<>>, NoLog, logs))
    /\ UNCHANGED <<repoFile, repoPc>>

\* AppService.read_logs over the repository, whose read may also fail for a reason
\* of its own (a file it may not read).
AppReadLogs ==
    /\ repoPc = "ready" /\ Len(repoCalls) < MaxRepoCalls
    /\ \E denied \in BOOLEAN :
          LET logs == IF denied THEN [raised |-> "PermissionError", value |-> <<>>]
                      ELSE LogRepository_read_logs(repoFile)
          IN repoCalls' = Append(repoCalls,
                 CallRecord("AppService.read_logs", AppService_read_logs(logs), <<>>,
                            NoLog, logs))
    /\ UNCHANGED <<repoFile, repoPc>>

RepoNext ==
    /\ Construct \/ RepoCreateLog \/ RepoReadLogs \/ AppReadLogs
    /\ UNCHANGED <<searchVars, handlerVars, appVars, pureVars, readerVars,
                   parallelVars, createVars, listenerVars, startupVars, bmVars,
                   dictVars>>

SpecRepo == RepoInit /\ [][RepoNext]_vars

\* C34: for a LogRepository constructed on any path, whether the file was missing or
\* existed already (empty, as the tests create it, included), create_log succeeds and
\* a read_logs that follows it returns the earlier entries followed by the new entry,
\* in insertion order.
C34_CreateThenReadOnAnyPath ==
    \A i \in 1..Len(repoCalls) :
        repoCalls[i].op = "create_log" =>
            /\ repoCalls[i].raised = ""
            /\ (i < Len(repoCalls) /\ repoCalls[i + 1].op = "read_logs") =>
                   /\ repoCalls[i + 1].raised = ""
                   /\ repoCalls[i + 1].value =
                          Append(repoCalls[i].before, repoCalls[i].entry)

\* C35: AppService.read_logs never raises: it returns the log repository's list when
\* the read succeeds and the empty list when the repository raises any exception.
C35_ReadLogsNeverRaises ==
    \A i \in 1..Len(repoCalls) :
        repoCalls[i].op = "AppService.read_logs" =>
            /\ repoCalls[i].raised = ""
            /\ repoCalls[i].value =
                   IF repoCalls[i].repo.raised # "" THEN <<>> ELSE repoCalls[i].repo.value
            /\ (i = Len(repoCalls) /\ repoCalls[i].repo.raised = "") =>
                   repoCalls[i].value = repoFile.entries

\* The service has returned the two entries of the file, and then, on a file it may
\* not read, the empty list.
C35_Witness ==
    /\ Len(repoCalls) = 2
    /\ \A i \in 1..2 : repoCalls[i].op = "AppService.read_logs"
    /\ repoCalls[1].repo.raised = "" /\ Len(repoCalls[1].value) = 2
    /\ repoCalls[2].repo.raised = "PermissionError" /\ repoCalls[2].value = <<>>

\* ------------------------------------------------------------ the claims
\* AppService.read_logs (app.py:203-213): the repository's list, or [] when reading
\* raises.
read_logs == IF logFile.valid THEN logFile.entries ELSE <<>>

Quiescent == \A t \in Threads : pc[t] \in {"idle", "done"}

DistinctIds(entries) ==
    \A i, j \in 1..Len(entries) : i # j => entries[i].id # entries[j].id

Searched(t) == hist[t].used.built

LoadFailedIn(t) == hist[t].loads = 1 /\ ~hist[t].fileAtLoad.exists

\* The lines the corpus file held after v edits.
SnapshotLines(v) == versions[v + 1]

\* C4: concurrent LogRepository.create_log calls lose no append: once they have all
\* returned, the file holds one entry per call.
C4_NoLostAppend == Quiescent => Len(logFile.entries) = nAppends

C8_SearchUsesOwnMode ==
    \A t \in Threads :
        (Searched(t) /\ call[t].found \in {"True", "False"}) =>
            hist[t].used.mode = EffectiveMode(call[t].algo)

\* C9: a create_log whose load_file failed returns status 'error' with the message
\* that the data file could not be loaded.
C9_LoadFailureMessage ==
    \A t \in Threads :
        (pc[t] = "done" /\ LoadFailedIn(t)) =>
            /\ call[t].status = "error"
            /\ call[t].error = "Data file could not be loaded"

\* C10: a failed load leaves the loaded corpus data and its index exactly as they were.
C10_FailedLoadKeepsSnapshot ==
    [][\A t \in Threads :
           (pc[t] = "load_file" /\ pc'[t] = "done") => (data' = data /\ index' = index)]_vars

\* A load has failed while a good snapshot and its index were held.
C10_Witness ==
    \E t \in Threads : pc[t] = "done" /\ LoadFailedIn(t) /\ data.loaded /\ index.built

\* A step of the call failed: a dependency raised, or load_file reported failure.
StepFailed(t) == hist[t].fault # "" \/ LoadFailedIn(t)

\* C11: create_log never raises, whatever load_file, prepare, search, the Log
\* construction or the log repository do; it returns a result record, whose status is
\* 'error' whenever one of those steps failed.
C11_CreateLogNeverRaises ==
    \A t \in Threads :
        /\ pc[t] # "raised"
        /\ pc[t] = "done" =>
               /\ call[t].status \in ResultStatuses
               /\ StepFailed(t) => call[t].status = "error"

\* The log repository raised while writing, and the call returned an error record.
C11_Witness ==
    \E t \in Threads :
        /\ pc[t] = "done" /\ hist[t].fault = "OSError" /\ ~logFile.valid
        /\ call[t].status = "error"

\* The fields of a log entry as the reply format lists them.
EntryFields == {"id", "query", "requesting_ip", "execution_time", "timestamp", "status"}

\* C22: every entry read_logs returns after create_log wrote entries is an object
\* with exactly the six fields id, query, requesting_ip, execution_time, timestamp
\* and status.
C22_EntriesHaveSixFields ==
    Quiescent => \A i \in 1..Len(read_logs) : DOMAIN read_logs[i] = EntryFields

\* The entries of a list that carry the id.
WithId(entries, id) == {i \in 1..Len(entries) : entries[i].id = id}

Succeeded(c) == c.status \in {"STRING_EXISTS", "STRING_NOT_FOUND"}

\* C23: when create_log returns a STRING_EXISTS or STRING_NOT_FOUND result with id X,
\* the call has written an entry with id X to the log store, once, and the store
\* holds exactly one entry with that id at the return.
C23_PersistedBeforeReturn ==
    [][\A t \in Threads :
           (pc[t] # "done" /\ pc'[t] = "done" /\ Succeeded(call'[t])) =>
               /\ call'[t].id # 0
               /\ hist'[t].persisted = 1
               /\ logFile'.valid
               /\ Cardinality(WithId(logFile'.entries, call'[t].id)) = 1]_vars

\* A second call has returned found, its entry behind the first call's.
C23_Witness ==
    \E t \in Threads :
        /\ pc[t] = "done" /\ call[t].status = "STRING_EXISTS" /\ hist[t].persisted = 1
        /\ Len(logFile.entries) = 2 /\ logFile.entries[2].id = call[t].id

\* The call holds a Log it has handed, or is handing, to the log repository.
HoldsLog(t) == pc[t] \in {"repo_read", "repo_open", "repo_dump"}

Completed(log) ==
    log.status # "None" /\ log.execution_time # "None" /\ log.timestamp # "None"

ReturnedRecordOfLog(c) ==
    [id |-> c.log.id, execution_time |-> c.log.execution_time,
     timestamp |-> IF c.log.timestamp = "None" THEN "None" ELSE "isoformat",
     status |-> c.status]

\* app.py:114-162, 175-201: id, execution_time, timestamp and status of the returned
\* dictionary: the literals of an error return (None; 0 for the id), or the Log's
\* fields with timestamp.isoformat() and the status computed from found.
ReturnedRecord(c) ==
    IF c.status = "error"
    THEN [id |-> 0, execution_time |-> "None", timestamp |-> "None", status |-> "error"]
    ELSE [id |-> c.log.id, execution_time |-> c.log.execution_time,
          timestamp |-> IF c.log.timestamp = "None" THEN "None" ELSE "isoformat",
          status |-> c.status]

\* The search of the call ran and returned found.
SearchReturned(t, found) == call[t].found = found

\* C37 as stated: every record returned by create_log has a status in
\* {STRING_EXISTS, STRING_NOT_FOUND, error}; the status is STRING_EXISTS exactly when
\* the search ran and returned found=true and STRING_NOT_FOUND exactly when it ran and
\* returned found=false; and id, execution_time and timestamp are None if and only if
\* the status is error.
C37_StatusExactlyTheSearchResult ==
    \A t \in Threads :
        pc[t] = "done" =>
            LET r == ReturnedRecord(call[t])
            IN /\ r.status \in ResultStatuses
               /\ r.status = "STRING_EXISTS" <=> SearchReturned(t, "True")
               /\ r.status = "STRING_NOT_FOUND" <=> SearchReturned(t, "False")
               /\ r.id = 0 <=> r.status = "error"
               /\ r.execution_time = "None" <=> r.status = "error"
               /\ r.timestamp = "None" <=> r.status = "error"

\* C37, amended: every record returned by create_log has a status in
\* {STRING_EXISTS, STRING_NOT_FOUND, error}; the status is STRING_EXISTS exactly when
\* the search returned found=true and the entry was then built and written to the log
\* store without an exception, STRING_NOT_FOUND exactly when the search returned
\* found=false and the entry was built and written without an exception; and id,
\* execution_time and timestamp are None if and only if the status is error.
C37_StatusOfPersistedSearchResult ==
    \A t \in Threads :
        pc[t] = "done" =>
            LET r == ReturnedRecord(call[t])
            IN /\ r.status \in ResultStatuses
               /\ r.status = "STRING_EXISTS" <=>
                      (SearchReturned(t, "True") /\ hist[t].persisted = 1)
               /\ r.status = "STRING_NOT_FOUND" <=>
                      (SearchReturned(t, "False") /\ hist[t].persisted = 1)
               /\ r.id = 0 <=> r.status = "error"
               /\ r.execution_time = "None" <=> r.status = "error"
               /\ r.timestamp = "None" <=> r.status = "error"

\* The search found the query, writing the built entry raised, and the call returned
\* an error record without id, execution_time and timestamp.
C37_Witness ==
    \E t \in Threads :
        /\ pc[t] = "done" /\ SearchReturned(t, "True") /\ call[t].log # NoLog
        /\ hist[t].fault = "OSError" /\ hist[t].persisted = 0
        /\ ReturnedRecord(call[t]) =
               [id |-> 0, execution_time |-> "None", timestamp |-> "None",
                status |-> "error"]

\* A step of the call: its start, or a step of its load, prepare or search.
BeforePersisting(t) ==
    \/ pc[t] \in {"idle", "done"} /\ pc'[t] \in {"load_file", "prepare"}
    \/ pc[t] \in {"load_file", "prepare", "search"}

\* C38: a create_log call that returns status 'error' because the load, the prepare
\* or the search failed leaves the log store unchanged: no step of the call, from its
\* start to that return, changes the store, and no entry is appended for the request.
C38_FailedRequestLeavesLogStore ==
    [][\A t \in Threads :
           /\ BeforePersisting(t) => logFile' = logFile
           /\ (BeforePersisting(t) /\ call'[t].status = "error") =>
                  (hist'[t].persisted = 0 /\ nAppends' = nAppends)]_vars

\* The second request failed in its search after the first one was written: the log
\* store holds the entry of the first request only.
C38_Witness ==
    \E t \in Threads :
        /\ pc[t] = "done" /\ call[t].status = "error" /\ hist[t].fault = "SearchError"
        /\ hist[t].persisted = 0 /\ nCalls = 2 /\ nAppends = 1
        /\ logFile.valid /\ Len(logFile.entries) = 1

====
